---- MODULE Spec2Model ----
(***************************************************************************)
(* Model of pysynphot/observationmode.py: the observation-mode parser,     *)
(* component lookup, component builder with its reuse cache, the optical   *)
(* composition (Throughput, Sensitivity), the binned wavelength set and    *)
(* the thermal composition (ThermalSpectrum).                              *)
(*                                                                         *)
(* Strings are sequences of one-character strings, so that lower(),        *)
(* split(), the band(...) regular expression, float() and endswith() are   *)
(* modelled by what they do to the characters.  Floating-point numbers are *)
(* exact decimals [num, exp] (num * 10^exp, num not divisible by 10), and  *)
(* floating-point products are kept symbolic so that multiplication order  *)
(* is observable.                                                          *)
(***************************************************************************)
EXTENDS Integers, Sequences, FiniteSets, TLC

(***************************************************************************)
(* Bounds of the model.                                                    *)
(***************************************************************************)
\* longest mode string, in pieces, that the parser is applied to
MaxPieces == 4
\* number of ObservationMode constructions in one behaviour
MaxConstructions == 2
\* the longest list of file names handed to the thermal component builder
MaxNames == 2

(***************************************************************************)
(* Characters and Python string primitives.                                *)
(***************************************************************************)
UpperCase == <<"A","B","C","D","E","F","G","H","I","J","K","L","M",
               "N","O","P","Q","R","S","T","U","V","W","X","Y","Z">>
LowerCase == <<"a","b","c","d","e","f","g","h","i","j","k","l","m",
               "n","o","p","q","r","s","t","u","v","w","x","y","z">>
Digits == <<"0","1","2","3","4","5","6","7","8","9">>
Whitespace == {" "}

\* str.lower() on one character
LowerChar(c) ==
    IF \E i \in 1..Len(UpperCase) : UpperCase[i] = c
    THEN LowerCase[CHOOSE i \in 1..Len(UpperCase) : UpperCase[i] = c]
    ELSE c

\* str.lower()
Lower(s) == [i \in 1..Len(s) |-> LowerChar(s[i])]

\* c in s, for a single character c
HasChar(c, s) == \E i \in 1..Len(s) : s[i] = c

\* s[from:] for a 1-based position
Tail1(s, from) == SubSeq(s, from, Len(s))

\* s.find(c) as a 1-based position, 0 when absent
FindChar(c, s) ==
    IF HasChar(c, s)
    THEN CHOOSE i \in 1..Len(s) : s[i] = c /\ \A j \in 1..(i-1) : s[j] # c
    ELSE 0

\* s.split(c): always at least one piece, "".split(',') == ['']
RECURSIVE Split(_, _)
\* (mutant) the empty string splits into no piece at all
SplitNoEmpty(s, c) ==
    LET p == FindChar(c, s)
    IN  IF Len(s) = 0 THEN <<>>
        ELSE IF p = 0 THEN <<s>>
        ELSE <<SubSeq(s, 1, p-1)>> \o Split(Tail1(s, p+1), c)

Split(s, c) ==
    LET p == FindChar(c, s)
    IN  IF p = 0 THEN <<s>>
        ELSE <<SubSeq(s, 1, p-1)>> \o Split(Tail1(s, p+1), c)

\* s.lstrip()
RECURSIVE Lstrip(_)
Lstrip(s) ==
    IF Len(s) > 0 /\ s[1] \in Whitespace THEN Lstrip(Tail(s)) ELSE s

\* s.rstrip()
RECURSIVE Rstrip(_)
Rstrip(s) ==
    IF Len(s) > 0 /\ s[Len(s)] \in Whitespace
    THEN Rstrip(SubSeq(s, 1, Len(s)-1)) ELSE s

\* s.endswith(t)
EndsWith(s, t) ==
    Len(s) >= Len(t) /\ SubSeq(s, Len(s)-Len(t)+1, Len(s)) = t

(***************************************************************************)
(* float(): the decimal grammar of Python's float() on a string, and the   *)
(* value it denotes.  ValueError is the failure outcome.                   *)
(***************************************************************************)
IsDigit(c) == \E i \in 1..Len(Digits) : Digits[i] = c
DigitVal(c) == (CHOOSE i \in 1..Len(Digits) : Digits[i] = c) - 1
AllDigits(s) == \A i \in 1..Len(s) : IsDigit(s[i])

\* value of a digit string read as a decimal integer
RECURSIVE DigitsVal(_)
DigitsVal(s) ==
    IF Len(s) = 0 THEN 0
    ELSE 10 * DigitsVal(SubSeq(s, 1, Len(s)-1)) + DigitVal(s[Len(s)])

\* num * 10^exp with the factors of ten moved into exp; zero is [0, 0]
RECURSIVE Normalise(_, _)
Normalise(num, exp) ==
    IF num = 0 THEN [kind |-> "float", num |-> 0, exp |-> 0]
    ELSE IF num % 10 = 0 THEN Normalise(num \div 10, exp + 1)
    ELSE [kind |-> "float", num |-> num, exp |-> exp]

ValueError == [kind |-> "ValueError"]
NoneVal == [kind |-> "None"]

\* an optional leading sign: <<sign, rest>>
SplitSign(s) ==
    IF Len(s) > 0 /\ s[1] = "-" THEN <<-1, Tail(s)>>
    ELSE IF Len(s) > 0 /\ s[1] = "+" THEN <<1, Tail(s)>>
    ELSE <<1, s>>

\* the digits before and after the decimal point of a mantissa
IntPart(m) == IF HasChar(".", m) THEN SubSeq(m, 1, FindChar(".", m) - 1) ELSE m
FracPart(m) == IF HasChar(".", m) THEN Tail1(m, FindChar(".", m) + 1) ELSE <<>>

\* digits [. digits] | . digits, at least one digit in all
MantissaOK(m) ==
    /\ AllDigits(IntPart(m)) /\ AllDigits(FracPart(m))
    /\ Len(IntPart(m)) + Len(FracPart(m)) > 0

\* [sign] digits, at least one digit
ExponentOK(e) == Len(SplitSign(e)[2]) > 0 /\ AllDigits(SplitSign(e)[2])

\* the number with mantissa m and, when has_exp, exponent e
Decimal(sign, m, has_exp, e) ==
    IF MantissaOK(m) /\ (~has_exp \/ ExponentOK(e))
    THEN Normalise(sign * DigitsVal(IntPart(m) \o FracPart(m)),
                   (IF has_exp
                    THEN SplitSign(e)[1] * DigitsVal(SplitSign(e)[2])
                    ELSE 0) - Len(FracPart(m)))
    ELSE ValueError

\* the number written b, without its sign
Unsigned(sign, b) ==
    IF b = <<"n","a","n">> THEN [kind |-> "nan"]
    ELSE IF b \in {<<"i","n","f">>, <<"i","n","f","i","n","i","t","y">>}
    THEN [kind |-> "inf", sign |-> sign]
    ELSE IF HasChar("e", b)
    THEN Decimal(sign, SubSeq(b, 1, FindChar("e", b) - 1), TRUE,
                 Tail1(b, FindChar("e", b) + 1))
    ELSE Decimal(sign, b, FALSE, <<>>)

\* float() of a string without blanks around it, in lower case
FloatOfStripped(s) == Unsigned(SplitSign(s)[1], SplitSign(s)[2])

\* float(str)
FloatOf(str) == FloatOfStripped(Lower(Rstrip(Lstrip(str))))

(***************************************************************************)
(* BaseObservationMode.__init__, first part: the band(...) wrapper and the *)
(* keyword / parameter parser.                                             *)
(***************************************************************************)
BandOpen == <<"b","a","n","d","(">>

\* positions at which  band\((.*?)\)  matches, ignoring case; '.' does not
\* match a newline
BandStarts(s) ==
    { i \in 1..Len(s) :
        /\ i + 4 <= Len(s)
        /\ Lower(SubSeq(s, i, i+4)) = BandOpen
        /\ \E j \in (i+5)..Len(s) :
              /\ s[j] = ")"
              /\ \A k \in (i+5)..(j-1) : s[k] # "\n" }

Min(S) == CHOOSE i \in S : \A j \in S : i <= j

\* group(1) of the leftmost, shortest match
BandGroup(s) ==
    LET i == Min(BandStarts(s))
        j == Min({ k \in (i+5)..Len(s) : s[k] = ")" })
    IN  SubSeq(s, i+5, j-1)

\* (mutant) the group runs to the last ')' instead of the first
StripBandGreedy(obsmode) ==
    IF BandStarts(obsmode) # {}
    THEN LET i == Min(BandStarts(obsmode))
             j == CHOOSE k \in (i+5)..Len(obsmode) :
                     /\ obsmode[k] = ")"
                     /\ \A l \in (k+1)..Len(obsmode) : obsmode[l] # ")"
         IN  SubSeq(obsmode, i+5, j-1)
    ELSE obsmode

\* (mutant) the wrapper is matched in lower case only
StripBandCaseSensitive(obsmode) ==
    IF \E i \in BandStarts(obsmode) : SubSeq(obsmode, i, i+4) = BandOpen
    THEN LET i == Min({ k \in BandStarts(obsmode) :
                          SubSeq(obsmode, k, k+4) = BandOpen })
             j == Min({ k \in (i+5)..Len(obsmode) : obsmode[k] = ")" })
         IN  SubSeq(obsmode, i+5, j-1)
    ELSE obsmode

\* obsmode after lines 86-88
StripBand(obsmode) ==
    IF BandStarts(obsmode) # {} THEN BandGroup(obsmode) ELSE obsmode

NoPars == [k \in {} |-> NoneVal]

\* lines 101-102 for a token m with a '#': the value, or ValueError when m
\* does not split in two at '#' or float() rejects what follows the '#'
TokenValue(parts) ==
    IF Len(parts) # 2 THEN ValueError ELSE FloatOf(parts[2])

\* the loop of lines 99-105 over the tokens still to be read
RECURSIVE ParseTokens(_, _, _)
\* (mutant) a malformed token ends the loop instead of raising
ParseTokensSkipRest(modes, done, pardict) ==
    IF Len(modes) = 0
    THEN [kind |-> "ok", modes |-> done, pardict |-> pardict]
    ELSE IF HasChar("#", Head(modes))
    THEN IF TokenValue(Split(Head(modes), "#")) = ValueError
         THEN [kind |-> "ok", modes |-> done \o modes, pardict |-> pardict]
         ELSE ParseTokens(Tail(modes),
                          Append(done, Append(Split(Head(modes), "#")[1], "#")),
                          (Split(Head(modes), "#")[1]
                              :> TokenValue(Split(Head(modes), "#"))) @@ pardict)
    ELSE ParseTokens(Tail(modes), Append(done, Head(modes)), pardict)

\* (mutant) the first value of a repeated key is kept
ParseTokensFirstWins(modes, done, pardict) ==
    IF Len(modes) = 0
    THEN [kind |-> "ok", modes |-> done, pardict |-> pardict]
    ELSE IF HasChar("#", Head(modes))
    THEN IF TokenValue(Split(Head(modes), "#")) = ValueError
         THEN ValueError
         ELSE ParseTokens(Tail(modes),
                          Append(done, Append(Split(Head(modes), "#")[1], "#")),
                          pardict @@ (Split(Head(modes), "#")[1]
                              :> TokenValue(Split(Head(modes), "#"))))
    ELSE ParseTokens(Tail(modes), Append(done, Head(modes)), pardict)

ParseTokens(modes, done, pardict) ==
    IF Len(modes) = 0
    THEN [kind |-> "ok", modes |-> done, pardict |-> pardict]
    ELSE IF HasChar("#", Head(modes))
    THEN IF TokenValue(Split(Head(modes), "#")) = ValueError
         THEN ValueError
         ELSE ParseTokens(Tail(modes),
                          Append(done, Append(Split(Head(modes), "#")[1], "#")),
                          (Split(Head(modes), "#")[1]
                              :> TokenValue(Split(Head(modes), "#"))) @@ pardict)
    ELSE ParseTokens(Tail(modes), Append(done, Head(modes)), pardict)

\* lines 94-107: [kind "ok", modes, pardict] or ValueError
ParseMode(obsmode) ==
    LET modes == Split(Lower(obsmode), ",")
    IN  IF HasChar("#", obsmode)
        THEN ParseTokens(modes, <<>>, NoPars)
        ELSE [kind |-> "ok", modes |-> modes, pardict |-> NoPars]

\* dict.get(key): None when the key is absent (or is None itself)
DictGet(d, key) == IF key \in DOMAIN d THEN d[key] ELSE NoneVal

(***************************************************************************)
(* Reference data.  The graph table, the component table and the file      *)
(* name conversion are collaborators of observationmode.py; they are       *)
(* modelled by their interface: a graph table is a list of rows            *)
(* (innode, outnode, keyword, compname, thcompname) traversed from node 1, *)
(* taking at each node the row whose keyword is among the mode's keywords  *)
(* and the 'default' row otherwise.                                        *)
(***************************************************************************)
CLEAR == <<"c","l","e","a","r">>
\* a name that is None rather than a string: no string equals it
NoneName == <<"None">>
DEFAULT == <<"d","e","f","a","u","l","t">>

\* refs.GRAPHTABLE, refs.COMPTABLE
DefaultGraphTable == "g1"
DefaultCompTable == "c1"
\* refs.PRIMARY_AREA
DefaultPrimaryArea == [kind |-> "float", num |-> 45239, exp |-> 0]

Row(i, o, kw, cn, th) ==
    [innode |-> i, outnode |-> o, keyword |-> kw, compname |-> cn,
     thcompname |-> th]

GraphRows1 ==
    << Row(1, 2, <<"a">>, <<"x">>, CLEAR),
       Row(1, 2, <<"o">>, CLEAR, <<"t","o">>),
       Row(1, 2, DEFAULT, CLEAR, CLEAR),
       Row(2, 3, <<"b">>, <<"y">>, <<"t","y">>),
       Row(2, 3, <<"m","#">>, <<"z">>, CLEAR),
       Row(2, 3, DEFAULT, CLEAR, CLEAR),
       Row(3, 4, <<"c">>, <<"w">>, <<"t","w">>),
       Row(3, 4, <<"d">>, <<"w">>, <<"0",".","0">>),
       Row(3, 4, <<"e">>, <<"w">>, <<"t","e">>),
       Row(3, 4, DEFAULT, <<>>, CLEAR) >>

GraphRows2 ==
    << Row(1, 2, <<"a">>, <<"x">>, CLEAR),
       Row(1, 2, DEFAULT, CLEAR, CLEAR),
       Row(2, 3, <<"b">>, <<"w">>, <<"t","w">>),
       Row(2, 3, DEFAULT, NoneName, CLEAR) >>

GraphTableNames == {"g1", "g2"}

\* the error of opening a file that does not exist
IOError == [kind |-> "IOError"]

\* GraphTable(name): the loaded table; only g1 carries a primary_area
GraphTable(name) ==
    IF name = "g1"
    THEN [name |-> name, rows |-> GraphRows1, has_area |-> TRUE,
          primary_area |-> [kind |-> "float", num |-> 1, exp |-> 2]]
    ELSE IF name = "g2"
    THEN [name |-> name, rows |-> GraphRows2, has_area |-> FALSE,
          primary_area |-> NoneVal]
    ELSE IOError

\* the row taken at a node: 0 when the node has no row at all
RowAt(gt, modes, node) ==
    LET here == { r \in 1..Len(gt.rows) : gt.rows[r].innode = node }
        hit  == { r \in here :
                    \E k \in 1..Len(modes) : modes[k] = gt.rows[r].keyword }
        dflt == { r \in here : gt.rows[r].keyword = DEFAULT }
    IN  IF hit # {} THEN Min(hit)
        ELSE IF dflt # {} THEN Min(dflt)
        ELSE 0

\* GraphTable.GetComponentsFromGT(modes, innode): <<compnames, thcompnames>>
RECURSIVE GetComponentsFromGT(_, _, _)
GetComponentsFromGT(gt, modes, innode) ==
    LET r == RowAt(gt, modes, innode)
    IN  IF r = 0 THEN << <<>>, <<>> >>
        ELSE LET rest == GetComponentsFromGT(gt, modes, gt.rows[r].outnode)
             IN  << <<gt.rows[r].compname>> \o rest[1],
                    <<gt.rows[r].thcompname>> \o rest[2] >>

CompRow(cn, fn) == [compname |-> cn, filename |-> fn]

\* c1 pairs with both graph tables; c2 lacks component w
CompRows1 ==
    << CompRow(<<"x">>, <<"c","$","x">>),
       CompRow(<<"y">>, <<" ","y">>),
       CompRow(<<"z">>, <<"c","$","z","[","m","#","]">>),
       CompRow(<<"w">>, <<"c","$","w">>) >>

CompRows2 ==
    << CompRow(<<"x">>, <<"c","$","x">>),
       CompRow(<<"y">>, <<" ","y">>),
       CompRow(<<"z">>, <<"c","$","z","[","m","#","]">>) >>

CompTableNames == {"c1", "c2"}

\* CompTable(name): the loaded table
CompTable(name) ==
    IF name \in CompTableNames
    THEN [name |-> name,
          rows |-> IF name = "c1" THEN CompRows1 ELSE CompRows2]
    ELSE IOError

\* refs.THERMTABLE
DefaultThermTable == "t1"

\* the thermal component table: thermal component name -> emissivity file
ThermRows1 ==
    << CompRow(<<"t","o">>, <<"t","$","o">>),
       CompRow(<<"t","y">>, <<"t","$","y">>),
       CompRow(<<"t","w">>, <<"t","$","w">>),
       CompRow(<<"t","e">>, <<"t","$","e">>) >>

\* CompTable(name) for a thermal table
ThermTable(name) == [name |-> name, rows |-> ThermRows1]

\* the lines of detectors.dat: 'instrument,detector  pixel-scale'
DetectorLines ==
    << <<"a",",","b"," ","0",".","0","5">>,
       <<"o",",","m","#","1"," "," ","0",".","1">>,
       <<"b",",","c"," ","0",".","1","3">> >>

\* refs._default_waveset and the wavelengths of the Vega spectrum
DefaultWaveSet == <<1, 3, 5, 7, 9>>
VegaWaveSet == <<0, 2, 4, 6, 8>>

\* locations.irafconvert: 'var$rest' becomes the directory of var plus rest
IrafConvert(name) ==
    LET p == FindChar("$", name)
    IN  IF p = 0 THEN name ELSE <<"/">> \o Tail1(name, p+1)

\* the wavelength catalogue: (keywords, binned wavelength set)
WaveCatRow(key, value) == [key |-> key, value |-> value]
WaveCat ==
    << WaveCatRow(<<"a",",","b">>, <<"w","$","a","b">>),
       WaveCatRow(<<"b",",","c">>, <<"(","1",",","5",",","2",")">>) >>

KeyError == [kind |-> "KeyError"]
Str(s) == [kind |-> "str", value |-> s]

\* wavetable.wavetable[obm]: the rows all of whose keywords the mode has;
\* KeyError for none, ValueError for more than one
WaveTableGet(obm) ==
    LET candidates ==
            { r \in 1..Len(WaveCat) :
                \A i \in 1..Len(Split(WaveCat[r].key, ",")) :
                  \E j \in 1..Len(Split(obm, ",")) :
                    Split(obm, ",")[j] = Split(WaveCat[r].key, ",")[i] }
    IN  IF candidates = {} THEN KeyError
        ELSE IF Cardinality(candidates) > 1 THEN ValueError
        ELSE Str(WaveCat[CHOOSE r \in candidates : TRUE].value)

(***************************************************************************)
(* Spectral elements.  A curve read from a file is named by the file (and  *)
(* the interpolation value); a product keeps its two operands, so that     *)
(* the order of multiplication is part of the value.                       *)
(***************************************************************************)
TabularSpectralElement(name) == [kind |-> "Tabular", name |-> name]
InterpolatedSpectralElement(name, interpval) ==
    [kind |-> "Interpolated", name |-> name, interpval |-> interpval]
\* SpectralElement.__mul__
Mul(a, b) == [kind |-> "Composite", left |-> a, right |-> b]

\* native wavelength grid of a file: grids of different files differ
FileWaveSet(name) ==
    IF name = <<"/","x">> THEN {1, 2, 3}
    ELSE IF name = <<"y">> THEN {2, 3, 4}
    ELSE IF name = <<"/","w">> THEN {3, 5}
    ELSE {1, 4}

\* ThermalSpectralElement(name): an emissivity curve read from a file
ThermalSpectralElement(name) == [kind |-> "Thermal", name |-> name]

\* wavelength grid of an emissivity file, ascending
EmissivityWaveSet(e) ==
    IF e.name = <<"/","o">> THEN <<4, 5, 6>>
    ELSE IF e.name = <<"/","y">> THEN <<3, 5, 7>>
    ELSE IF e.name = <<"/","e">> THEN <<10, 11>>
    ELSE <<2, 4, 6, 8>>

\* the elements of a sequence
Range(q) == { q[i] : i \in 1..Len(q) }

\* the ascending sequence of the numbers in S
RECURSIVE Sorted(_)
Sorted(S) ==
    IF S = {} THEN <<>>
    ELSE <<Min(S)>> \o Sorted(S \ {Min(S)})

\* spectrum.MergeWaveSets: the sorted union, duplicates removed
MergeWaveSets(w1, w2) == Sorted(Range(w1) \cup Range(w2))

\* GetWaveSet(): a product is sampled on the union of its operands' grids
RECURSIVE GetWaveSet(_)
GetWaveSet(c) ==
    IF c.kind = "Composite" THEN GetWaveSet(c.left) \cup GetWaveSet(c.right)
    ELSE FileWaveSet(c.name)

\* floating-point product, kept symbolic
Times(a, b) == [kind |-> "times", left |-> a, right |-> b]
\* a wavelength as a floating-point number
Wave(w) == [kind |-> "float", num |-> w, exp |-> 0]

\* c(w): the value of curve c at wavelength w
RECURSIVE Sample(_, _)
Sample(c, w) ==
    IF c.kind = "Composite" THEN Times(Sample(c.left, w), Sample(c.right, w))
    ELSE [kind |-> "value", of |-> c, at |-> w]

(***************************************************************************)
(* State.                                                                  *)
(***************************************************************************)
VARIABLES
    arg,            \* the input handed to the function applied: a mode
                    \* string, or the name lists of the thermal builder
    base,           \* outcome of BaseObservationMode(arg)
    wrapped,        \* outcome of BaseObservationMode('band(' + arg + ')')
    GRAPHDICT,      \* refs.GRAPHDICT: graph table name -> loaded table
    COMPDICT,       \* refs.COMPDICT: component table name -> loaded table
    component_dict, \* the component caches: cache -> (key -> component)
    om,             \* the ObservationMode most recently constructed
    result,         \* outcome of the most recent call
    nconstructed,   \* number of ObservationMode constructions so far
    built,          \* history: the (cache, key, generation) of every build
    reused,         \* history: the (cache, key) of every cache hit
    THERMDICT,      \* refs.THERMDICT: thermal table name -> loaded table
    printed,        \* what the most recent call wrote to standard output
    thom,           \* the _ThermalObservationMode most recently constructed
    threads         \* concurrent constructors: thread -> position and locals

vars == <<arg, base, wrapped, GRAPHDICT, COMPDICT, component_dict, om,
          result, nconstructed, built, reused, THERMDICT, printed, thom,
          threads>>

\* the default-argument dictionary of line 300 and a dictionary the caller owns
CacheNames == {"default", "user"}

NoTables == [n \in {} |-> NoneVal]
NoComponents == [k \in {} |-> NoneVal]

(***************************************************************************)
(* BaseObservationMode.__init__                                            *)
(***************************************************************************)
\* 5.03411762e7
HC == [kind |-> "float", num |-> 503411762, exp |-> -1]

ExceptionKinds ==
    {"ValueError", "IndexError", "TypeError", "KeyError", "AttributeError",
     "NotImplementedError", "UnboundLocalError", "IOError"}
IsException(v) == v.kind \in ExceptionKinds

\* (mutant) a table loaded takes the place of the tables in the cache
LookupGraphTableEvicting(graphtable, GD) ==
    IF graphtable \in DOMAIN GD
    THEN [table |-> GD[graphtable], dict |-> GD]
    ELSE IF GraphTable(graphtable) = IOError
    THEN [table |-> IOError, dict |-> GD]
    ELSE [table |-> GraphTable(graphtable),
          dict |-> (graphtable :> GraphTable(graphtable))]

\* lines 110-114: the table used, and the cache afterwards; the error of
\* GraphTable(graphtable) leaves line 114 unreached
LookupGraphTable(graphtable, GD) ==
    IF graphtable \in DOMAIN GD
    THEN [table |-> GD[graphtable], dict |-> GD]
    ELSE IF GraphTable(graphtable) = IOError
    THEN [table |-> IOError, dict |-> GD]
    ELSE [table |-> GraphTable(graphtable),
          dict |-> (graphtable :> GraphTable(graphtable)) @@ GD]

\* an attribute that was never assigned
Unset == [kind |-> "Unset"]

\* (mutant) an ambiguous key assigns the first of its matches
BinsetFirstMatch(wt) ==
    IF wt = KeyError THEN Unset
    ELSE IF wt = ValueError THEN Str(WaveCat[1].value)
    ELSE wt

\* lines 134-141: binset is assigned only when the lookup returns
Binset(wt) == IF wt \in {KeyError, ValueError} THEN Unset ELSE wt

\* line 141: the warning printed for an ambiguous key
Warning(wt) == IF wt = ValueError THEN <<"Warning">> ELSE <<>>

\* lines 116-141: the object, given the keywords and the graph table
BaseObject(obsmode, parsed, graphtable, gt, names) ==
    [kind |-> "BaseObservationMode",
     obsmode |-> obsmode,
     pardict |-> parsed.pardict,
     modes |-> parsed.modes,
     gtname |-> graphtable,
     compnames |-> names[1],
     thcompnames |-> names[2],
     primary_area |-> IF gt.has_area THEN gt.primary_area
                      ELSE DefaultPrimaryArea,
     constant |-> Times(HC, IF gt.has_area THEN gt.primary_area
                            ELSE DefaultPrimaryArea),
     components |-> NoneVal,
     pixscale |-> NoneVal,
     binset |-> Binset(WaveTableGet(Lower(obsmode)))]

\* lines 109-141, given the outcome of the parser and of the table lookup
BaseInitParsed(obsmode, parsed, graphtable, lk, GD) ==
    IF parsed = ValueError
    THEN [obj |-> ValueError, dict |-> GD, printed |-> <<>>]
    ELSE IF lk.table = IOError
    THEN [obj |-> IOError, dict |-> GD, printed |-> <<>>]
    ELSE [obj |-> BaseObject(obsmode, parsed, graphtable, lk.table,
                             GetComponentsFromGT(lk.table, parsed.modes, 1)),
          dict |-> lk.dict,
          printed |-> Warning(WaveTableGet(Lower(obsmode)))]

\* lines 89-141, given the mode string without its wrapper
BaseInitStripped(obsmode, graphtable, GD) ==
    BaseInitParsed(obsmode, ParseMode(obsmode), graphtable,
                   LookupGraphTable(graphtable, GD), GD)

\* lines 84-141: the object built, or the exception raised, and GRAPHDICT
BaseInit(obsmode_arg, graphtable, GD) ==
    BaseInitStripped(StripBand(obsmode_arg), graphtable, GD)

\* __str__
StrOf(mode) == mode.obsmode

\* __len__
LenOf(mode) == Len(mode.components)


(***************************************************************************)
(* ObservationMode.__init__ and the component builder.                     *)
(***************************************************************************)
IndexError == [kind |-> "IndexError"]
TypeError == [kind |-> "TypeError"]

\* lines 310-314: the table used, and the cache afterwards
LookupCompTable(comptable, CD) ==
    IF comptable \in DOMAIN CD
    THEN [table |-> CD[comptable], dict |-> CD]
    ELSE IF CompTable(comptable) = IOError
    THEN [table |-> IOError, dict |-> CD]
    ELSE [table |-> CompTable(comptable),
          dict |-> (comptable :> CompTable(comptable)) @@ CD]

\* N.where(comptable.compnames == compname)[0]
WhereName(ct, compname) ==
    { r \in 1..Len(ct.rows) : ct.rows[r].compname = compname }

\* BaseObservationMode._getFileNames: [kind "ok", files] or IndexError
RECURSIVE GetFileNamesFrom(_, _, _)
\* (mutant) a name missing from the table is taken for clear
GetFileNamesFromLenient(ct, compnames, files) ==
    IF Len(compnames) = 0 THEN [kind |-> "ok", files |-> files]
    ELSE LET compname == Head(compnames)
             index == WhereName(ct, compname)
         IN  IF compname \notin {NoneName, <<>>, CLEAR} /\ index # {}
             THEN GetFileNamesFrom(ct, Tail(compnames),
                    Append(files,
                      Lstrip(IrafConvert(ct.rows[Min(index)].filename))))
             ELSE GetFileNamesFrom(ct, Tail(compnames), Append(files, CLEAR))

GetFileNamesFrom(ct, compnames, files) ==
    IF Len(compnames) = 0 THEN [kind |-> "ok", files |-> files]
    ELSE LET compname == Head(compnames)
             index == WhereName(ct, compname)
         IN  IF compname \notin {NoneName, <<>>, CLEAR}
             THEN IF index = {} THEN IndexError
                  ELSE GetFileNamesFrom(ct, Tail(compnames),
                         Append(files,
                           Lstrip(IrafConvert(ct.rows[Min(index)].filename))))
             ELSE GetFileNamesFrom(ct, Tail(compnames), Append(files, CLEAR))

\* (mutant) the interpolation value is ignored
BuildThroughputTabular(name, interpval) ==
    IF name # CLEAR THEN TabularSpectralElement(name) ELSE NoneVal

\* _Component._buildThroughput: the curve, None for the clear sentinel
BuildThroughput(name, interpval) ==
    IF name # CLEAR
    THEN IF interpval = NoneVal THEN TabularSpectralElement(name)
         ELSE InterpolatedSpectralElement(name, interpval)
    ELSE NoneVal

\* _Component(throughput_name, interpval); id tells the objects apart
Component(id, throughput_name, interpval) ==
    [id |-> id,
     throughput_name |-> throughput_name,
     throughput |-> BuildThroughput(throughput_name, interpval),
     empty |-> (throughput_name = CLEAR)]

\* (mutant) no component counts as empty
IsEmptyNever(component) == FALSE

\* _Component.isEmpty
IsEmpty(component) == component.empty

CacheKey(throughput_name, interpval) ==
    [name |-> throughput_name, interpval |-> interpval]

\* lines 326-330: the parameter key of a file name, None without one;
\* ValueError when the name does not split in two at '['
ParKey(throughput_name) ==
    IF EndsWith(throughput_name, <<"#", "]">>)
    THEN LET parts == Split(throughput_name, "[")
         IN  IF Len(parts) # 2 THEN ValueError
             ELSE [kind |-> "key",
                   key |-> SubSeq(parts[2], 1, Len(parts[2]) - 2)]
    ELSE NoneVal

\* the build of key in cache that follows the builds of history h
NewBuild(cache, key, h) ==
    [cache |-> cache, key |-> key,
     gen |-> Cardinality({ e \in h : e.cache = cache /\ e.key = key }) + 1]

\* (mutant) the cache is never consulted
CacheHitNever(key, dict) == FALSE

\* line 332: the key is in the cache
CacheHit(key, dict) == key \in DOMAIN dict

\* ObservationMode._getOpticalComponents over the names still to be read:
\* the component list, the cache, and the builds and cache hits made
RECURSIVE GetOpticalComponents(_, _, _, _, _, _, _)
GetOpticalComponents(names, pardict, cache, dict, components, h, u) ==
    IF Len(names) = 0
    THEN [kind |-> "ok", components |-> components, dict |-> dict,
          built |-> h, reused |-> u]
    ELSE LET throughput_name == Head(names)
             parkey == ParKey(throughput_name)
             interpval == IF parkey = NoneVal THEN NoneVal
                          ELSE DictGet(pardict, parkey.key)
             key == CacheKey(throughput_name, interpval)
             hit == CacheHit(key, dict)
             component == IF hit THEN dict[key]
                          ELSE Component(NewBuild(cache, key, h),
                                         throughput_name, interpval)
             dict2 == IF hit THEN dict ELSE (key :> component) @@ dict
             h2 == IF hit THEN h ELSE h \cup {NewBuild(cache, key, h)}
             u2 == IF hit THEN u \cup {[cache |-> cache, key |-> key]} ELSE u
             components2 == IF ~IsEmpty(component)
                            THEN Append(components, component)
                            ELSE components
         IN  IF parkey = ValueError
             THEN [kind |-> "ValueError", components |-> components,
                   dict |-> dict, built |-> h, reused |-> u]
             ELSE GetOpticalComponents(Tail(names), pardict, cache, dict2,
                                       components2, h2, u2)

Raise(op, args, exc) ==
    [op |-> op, outcome |-> "raise", exc |-> exc.kind, args |-> args,
     value |-> NoneVal]
Return(op, args, value) ==
    [op |-> op, outcome |-> "return", exc |-> "", args |-> args,
     value |-> value]

\* mode strings the constructor is called with
ModeStrings ==
    { <<>>,
      <<"a",",","b",",","c">>,
      <<"a",",","m","#","1">>,
      <<"b","a","n","d","(","A",",","M","#","1",".","0",")">>,
      <<"m","#","2">>,
      <<"b",",","m","#","x">> }

\* the (graph table, component table) pairs the constructor is called with;
\* c2 lacks a component that g1 names
RefTables == { <<"g1", "c1">>, <<"g1", "c2">>, <<"g2", "c1">> }

\* lines 320-321, given the outcome oc of the component builder
ConstructComponents(args, b, fn, oc) ==
    /\ component_dict' = [component_dict EXCEPT ![args.cache] = oc.dict]
    /\ built' = oc.built
    /\ reused' = oc.reused
    /\ IF oc.kind = "ValueError"
       THEN /\ result' = Raise("ObservationMode", args, ValueError)
            /\ om' = om
       ELSE /\ result' = Return("ObservationMode", args, NoneVal)
            /\ om' = [kind |-> "ObservationMode",
                      obsmode |-> b.obj.obsmode,
                      pardict |-> b.obj.pardict,
                      modes |-> b.obj.modes,
                      gtname |-> b.obj.gtname,
                      ctname |-> args.comptable,
                      compnames |-> b.obj.compnames,
                      thcompnames |-> b.obj.thcompnames,
                      primary_area |-> b.obj.primary_area,
                      constant |-> b.obj.constant,
                      throughput_filenames |-> fn.files,
                      components |-> oc.components,
                      pixscale |-> NoneVal,
                      binset |-> b.obj.binset]

\* lines 318-321, given the outcome fn of the file lookup
ConstructFiles(args, b, fn) ==
    IF fn = IndexError
    THEN /\ result' = Raise("ObservationMode", args, IndexError)
         /\ UNCHANGED <<component_dict, om, built, reused>>
    ELSE ConstructComponents(args, b, fn,
             GetOpticalComponents(fn.files, b.obj.pardict, args.cache,
                                  component_dict[args.cache], <<>>, built,
                                  reused))

\* lines 309-321, given the outcome b of BaseObservationMode.__init__ and lc
\* of the component table lookup
ConstructBase(args, b, lc) ==
    IF IsException(b.obj)
    THEN /\ result' = Raise("ObservationMode", args, b.obj)
         /\ printed' = <<>>
         /\ UNCHANGED <<GRAPHDICT, COMPDICT, component_dict, om, built,
                        reused>>
    ELSE IF lc.table = IOError
    THEN /\ result' = Raise("ObservationMode", args, IOError)
         /\ GRAPHDICT' = b.dict
         /\ printed' = b.printed
         /\ UNCHANGED <<COMPDICT, component_dict, om, built, reused>>
    ELSE /\ GRAPHDICT' = b.dict
         /\ printed' = b.printed
         /\ COMPDICT' = lc.dict
         /\ ConstructFiles(args, b,
                GetFileNamesFrom(lc.table, b.obj.compnames, <<>>))

\* ObservationMode(obsmode, graphtable=..., comptable=..., component_dict=...)
Construct(obsmode, graphtable, comptable, cache) ==
    ConstructBase([obsmode |-> obsmode, graphtable |-> graphtable,
                   comptable |-> comptable, cache |-> cache],
                  BaseInit(obsmode, graphtable, GRAPHDICT),
                  LookupCompTable(comptable, COMPDICT))

ConstructAny ==
    /\ nconstructed < MaxConstructions
    /\ nconstructed' = nconstructed + 1
    /\ \E obsmode \in ModeStrings, tables \in RefTables, cache \in CacheNames :
          Construct(obsmode, tables[1], tables[2], cache)
    /\ UNCHANGED <<threads, arg, base, wrapped, THERMDICT, thom>>

(***************************************************************************)
(* Optical composition.                                                    *)
(***************************************************************************)
\* the loop of lines 398-400 over the components still to be read
RECURSIVE MultiplyRest(_, _)
\* (mutant) the operands of the product are exchanged
MultiplyRestSwapped(product, rest) ==
    IF Len(rest) = 0 THEN product
    ELSE MultiplyRest(IF Head(rest).throughput # NoneVal
                      THEN Mul(Head(rest).throughput, product)
                      ELSE product,
                      Tail(rest))

MultiplyRest(product, rest) ==
    IF Len(rest) = 0 THEN product
    ELSE MultiplyRest(IF Head(rest).throughput # NoneVal
                      THEN Mul(product, Head(rest).throughput)
                      ELSE product,
                      Tail(rest))

\* ObservationMode._multiplyThroughputs(index), index counted from 0
MultiplyThroughputs(components, index) ==
    IF index + 1 > Len(components) THEN IndexError
    ELSE MultiplyRest(components[index + 1].throughput,
                      SubSeq(components, index + 2, Len(components)))

\* self._multiplyThroughputs(*args): one positional argument is required
CallMultiplyThroughputs(components, args) ==
    IF Len(args) # 1 THEN TypeError
    ELSE MultiplyThroughputs(components, args[1])

\* str(component): the name of its curve
StrOfComponent(component) == component.throughput_name

\* sep.join(strs)
RECURSIVE Join(_, _)
Join(sep, strs) ==
    IF Len(strs) = 0 THEN <<>>
    ELSE IF Len(strs) = 1 THEN strs[1]
    ELSE strs[1] \o sep \o Join(sep, Tail(strs))

\* (mutant) the IndexError is not caught
ThroughputOfNoCatch(mode) ==
    LET product == CallMultiplyThroughputs(mode.components, <<0>>)
        wavetable == GetWaveSet(product)
    IN  IF product \in {TypeError, IndexError}
        THEN Raise("Throughput", NoneVal, product)
        ELSE Return("Throughput", NoneVal,
               [kind |-> "TabularSpectralElement",
                wavetable |-> wavetable,
                throughputtable |-> [w \in wavetable |-> Sample(product, w)],
                name |-> Join(<<"*">>,
                              [i \in 1..Len(mode.components) |->
                                  StrOfComponent(mode.components[i])])])

\* ObservationMode.Throughput: IndexError is caught and None returned
ThroughputOf(mode) ==
    LET product == CallMultiplyThroughputs(mode.components, <<0>>)
        wavetable == GetWaveSet(product)
    IN  IF product = TypeError THEN Raise("Throughput", NoneVal, TypeError)
        ELSE IF product = IndexError
        THEN Return("Throughput", NoneVal, NoneVal)
        ELSE Return("Throughput", NoneVal,
               [kind |-> "TabularSpectralElement",
                wavetable |-> wavetable,
                throughputtable |-> [w \in wavetable |-> Sample(product, w)],
                name |-> Join(<<"*">>,
                              [i \in 1..Len(mode.components) |->
                                  StrOfComponent(mode.components[i])])])

\* (mutant) Throughput() empties the component list
ThroughputConsuming ==
    /\ om # NoneVal
    /\ result' = ThroughputOf(om)
    /\ om' = [om EXCEPT !.components = <<>>]
    /\ printed' = <<>>
    /\ UNCHANGED <<threads, arg, base, wrapped, GRAPHDICT, COMPDICT, component_dict,
                   nconstructed, built, reused, THERMDICT, thom>>

Throughput ==
    /\ om # NoneVal
    /\ result' = ThroughputOf(om)
    /\ printed' = <<>>
    /\ UNCHANGED <<threads, arg, base, wrapped, GRAPHDICT, COMPDICT, component_dict,
                   om, nconstructed, built, reused, THERMDICT, thom>>

\* ObservationMode.Sensitivity: _multiplyThroughputs is called without index
SensitivityOf(mode) ==
    LET product == CallMultiplyThroughputs(mode.components, <<>>)
        wavetable == GetWaveSet(product)
    IN  IF product \in {TypeError, IndexError}
        THEN Raise("Sensitivity", NoneVal, product)
        ELSE Return("Sensitivity", NoneVal,
               [kind |-> "TabularSpectralElement",
                wavetable |-> wavetable,
                throughputtable |->
                    [w \in wavetable |->
                        Times(Times(Sample(product, w), Wave(w)),
                              mode.constant)]])

Sensitivity ==
    /\ om # NoneVal
    /\ result' = SensitivityOf(om)
    /\ printed' = <<>>
    /\ UNCHANGED <<threads, arg, base, wrapped, GRAPHDICT, COMPDICT, component_dict,
                   om, nconstructed, built, reused, THERMDICT, thom>>

\* BaseObservationMode.GetFileNames
GetFileNames ==
    /\ om # NoneVal
    /\ result' = Return("GetFileNames", NoneVal,
                        [kind |-> "list", items |-> om.throughput_filenames])
    /\ printed' = <<>>
    /\ UNCHANGED <<threads, arg, base, wrapped, GRAPHDICT, COMPDICT, component_dict,
                   om, nconstructed, built, reused, THERMDICT, thom>>

(***************************************************************************)
(* The binned wavelength set.                                              *)
(***************************************************************************)
AttributeError == [kind |-> "AttributeError"]

\* BaseObservationMode.bandWave: the set computed from the coefficients of
\* a '(...)' binset, or read from the file the binset names
BandWaveOf(mode) ==
    IF mode.binset = Unset
    THEN Raise("bandWave", NoneVal, AttributeError)
    ELSE IF Len(mode.binset.value) > 0 /\ mode.binset.value[1] = "("
    THEN Return("bandWave", NoneVal,
                [kind |-> "computed", coeff |-> mode.binset.value])
    ELSE Return("bandWave", NoneVal,
                [kind |-> "file", name |-> IrafConvert(mode.binset.value)])

BandWave ==
    /\ om # NoneVal
    /\ result' = BandWaveOf(om)
    /\ printed' = <<>>
    /\ UNCHANGED <<threads, arg, base, wrapped, GRAPHDICT, COMPDICT, component_dict,
                   om, nconstructed, built, reused, THERMDICT, thom>>

(***************************************************************************)
(* _ThermalObservationMode: the thermal components and the pixel scale.    *)
(***************************************************************************)
NotImplementedError == [kind |-> "NotImplementedError"]
UnboundLocalError == [kind |-> "UnboundLocalError"]

\* (mutant) a component is empty when it has no throughput
ThermalComponentByThroughput(throughput_name, thermal_name, interpval) ==
    [throughput_name |-> throughput_name,
     thermal_name |-> thermal_name,
     throughput |-> BuildThroughput(throughput_name, interpval),
     emissivity |-> IF thermal_name # CLEAR
                    THEN ThermalSpectralElement(thermal_name)
                    ELSE NoneVal,
     empty |-> (throughput_name = CLEAR)]

\* _ThermalComponent(throughput_name, thermal_name, interpval)
ThermalComponent(throughput_name, thermal_name, interpval) ==
    [throughput_name |-> throughput_name,
     thermal_name |-> thermal_name,
     throughput |-> BuildThroughput(throughput_name, interpval),
     emissivity |-> IF thermal_name # CLEAR
                    THEN ThermalSpectralElement(thermal_name)
                    ELSE NoneVal,
     empty |-> (throughput_name = CLEAR /\ thermal_name = CLEAR)]

\* lines 502-509: the interpolation value of a file name
InterpVal(throughput_name, pardict) ==
    IF ParKey(throughput_name) = NoneVal THEN NoneVal
    ELSE DictGet(pardict, ParKey(throughput_name).key)

\* lines 510-511
AppendNonEmpty(components, component) ==
    IF ~IsEmpty(component) THEN Append(components, component)
    ELSE components

\* _getThermalComponents from index i (1-based) on: [kind "ok", components],
\* IndexError when there is no i-th thermal name, ValueError when a file
\* name does not split in two at '['
RECURSIVE GetThermalComponents(_, _, _, _, _)
\* (mutant) the loop ends with the shorter of the two lists
GetThermalComponentsZip(tfiles, thfiles, pardict, i, components) ==
    IF i > Len(tfiles) \/ i > Len(thfiles)
    THEN [kind |-> "ok", components |-> components]
    ELSE IF ParKey(tfiles[i]) = ValueError THEN ValueError
    ELSE GetThermalComponents(tfiles, thfiles, pardict, i + 1,
             AppendNonEmpty(components,
                 ThermalComponent(tfiles[i], thfiles[i],
                                  InterpVal(tfiles[i], pardict))))

GetThermalComponents(tfiles, thfiles, pardict, i, components) ==
    IF i > Len(tfiles)
    THEN [kind |-> "ok", components |-> components]
    ELSE IF i > Len(thfiles) THEN IndexError
    ELSE IF ParKey(tfiles[i]) = ValueError THEN ValueError
    ELSE GetThermalComponents(tfiles, thfiles, pardict, i + 1,
             AppendNonEmpty(components,
                 ThermalComponent(tfiles[i], thfiles[i],
                                  InterpVal(tfiles[i], pardict))))

NonBlank(t) == Len(t) > 0
\* re.findall(r'\S+', line)
Tokens(line) == SelectSeq(Split(line, " "), NonBlank)

\* line 495: float(tokens[1])
PixelScaleOfTokens(tokens) ==
    IF Len(tokens) < 2 THEN IndexError ELSE FloatOf(tokens[2])

\* lines 487-493: the line the loop stops at, the last one when no line has
\* the key; ValueError when a line read has no token
LineOf(key, lines) ==
    LET hits == { i \in 1..Len(lines) :
                    Len(Tokens(lines[i])) > 0 /\ Tokens(lines[i])[1] = key }
        stop == IF hits = {} THEN Len(lines) ELSE Min(hits)
    IN  IF \E i \in 1..stop : Len(Tokens(lines[i])) = 0 THEN ValueError
        ELSE IF Len(lines) = 0 THEN UnboundLocalError
        ELSE [kind |-> "line", tokens |-> Tokens(lines[stop])]

\* lines 487-495 for the key 'k1,k2'
PixelScaleOfKey(line) ==
    IF IsException(line) THEN line ELSE PixelScaleOfTokens(line.tokens)

\* _ThermalObservationMode._getPixelScale
GetPixelScale(obsmode) ==
    IF Len(Split(obsmode, ",")) < 2 THEN IndexError
    ELSE PixelScaleOfKey(
             LineOf(Split(obsmode, ",")[1] \o <<",">> \o Split(obsmode, ",")[2],
                    DetectorLines))

\* lines 461-465: the table used, and the cache afterwards
LookupThermTable(thermtable, TD) ==
    IF thermtable \in DOMAIN TD
    THEN [table |-> TD[thermtable], dict |-> TD]
    ELSE [table |-> ThermTable(thermtable),
          dict |-> (thermtable :> ThermTable(thermtable)) @@ TD]

\* the outcome of _ThermalObservationMode(obsmode): the exception raised or
\* the object, and the table caches and the output it leaves
ThermalFail(exc, GD, CD, TD, out) ==
    [kind |-> exc.kind, thom |-> NoneVal, GRAPHDICT |-> GD, COMPDICT |-> CD,
     THERMDICT |-> TD, printed |-> out]

\* lines 471-475, given the components and the pixel scale
ThermalInitPixel(arg_obsmode, b, lc, lt, fn, thfn, tc, px) ==
    IF IsException(px)
    THEN ThermalFail(px, b.dict, lc.dict, lt.dict, b.printed)
    ELSE [kind |-> "ok",
          thom |-> [kind |-> "ThermalObservationMode",
                    obsmode |-> b.obj.obsmode,
                    pardict |-> b.obj.pardict,
                    modes |-> b.obj.modes,
                    gtname |-> b.obj.gtname,
                    ctname |-> DefaultCompTable,
                    thname |-> DefaultThermTable,
                    compnames |-> b.obj.compnames,
                    thcompnames |-> b.obj.thcompnames,
                    throughput_filenames |-> fn.files,
                    thermal_filenames |-> thfn.files,
                    components |-> tc.components,
                    pixscale |-> px,
                    name |-> arg_obsmode \o <<" (thermal)">>],
          GRAPHDICT |-> b.dict, COMPDICT |-> lc.dict, THERMDICT |-> lt.dict,
          printed |-> b.printed]

\* lines 471-474, given the components
ThermalInitComponents(arg_obsmode, b, lc, lt, fn, thfn, tc) ==
    IF IsException(tc)
    THEN ThermalFail(tc, b.dict, lc.dict, lt.dict, b.printed)
    ELSE ThermalInitPixel(arg_obsmode, b, lc, lt, fn, thfn, tc,
                          GetPixelScale(b.obj.obsmode))

\* lines 469-472, given the thermal file names
ThermalInitNames(arg_obsmode, b, lc, lt, fn, thfn) ==
    IF thfn = IndexError
    THEN ThermalFail(IndexError, b.dict, lc.dict, lt.dict, b.printed)
    ELSE ThermalInitComponents(arg_obsmode, b, lc, lt, fn, thfn,
             GetThermalComponents(fn.files, thfn.files, b.obj.pardict, 1,
                                  <<>>))

\* lines 458-469, given the throughput file names
ThermalInitFiles(arg_obsmode, b, lc, fn, TD) ==
    IF fn = IndexError
    THEN ThermalFail(IndexError, b.dict, lc.dict, TD, b.printed)
    ELSE ThermalInitNames(arg_obsmode, b, lc,
                          LookupThermTable(DefaultThermTable, TD), fn,
                          GetFileNamesFrom(
                              LookupThermTable(DefaultThermTable, TD).table,
                              b.obj.thcompnames, <<>>))

\* line 446: every thermal component name is 'clear', '' or '0.0'
NoThermalSupport(thcompnames) ==
    Range(thcompnames) \subseteq {CLEAR, <<>>, <<"0",".","0">>}

\* lines 444-458, given the outcome b of BaseObservationMode.__init__
ThermalInitBase(arg_obsmode, b, GD, CD, TD) ==
    IF IsException(b.obj)
    THEN ThermalFail(b.obj, GD, CD, TD, <<>>)
    ELSE IF NoThermalSupport(b.obj.thcompnames)
    THEN ThermalFail(NotImplementedError, b.dict, CD, TD, b.printed)
    ELSE ThermalInitFiles(arg_obsmode, b,
                          LookupCompTable(DefaultCompTable, CD),
                          GetFileNamesFrom(
                              LookupCompTable(DefaultCompTable, CD).table,
                              b.obj.compnames, <<>>),
                          TD)

\* _ThermalObservationMode(obsmode), with the default tables
ThermalInit(obsmode, GD, CD, TD) ==
    ThermalInitBase(obsmode, BaseInit(obsmode, DefaultGraphTable, GD),
                    GD, CD, TD)

(***************************************************************************)
(* Thermal composition.  A source spectrum is kept symbolic: the all-zero  *)
(* spectrum on a grid, a spectrum times a throughput, a spectrum plus an   *)
(* emission, a spectrum trimmed to a wavelength range.                     *)
(***************************************************************************)
\* ArraySourceSpectrum(wave, zeros)
ZeroSpectrum(wave) == [kind |-> "Zero", wave |-> Range(wave)]
\* SourceSpectrum.__mul__ by a spectral element
SpMul(sp, throughput) == [kind |-> "SpMul", left |-> sp, right |-> throughput]
\* SourceSpectrum.__add__
SpAdd(sp, sp_comp) == [kind |-> "SpAdd", left |-> sp, right |-> sp_comp]
\* spectrum.trimSpectrum(sp, minw, maxw)
TrimSpectrum(sp, minw, maxw) ==
    [kind |-> "Trim", of |-> sp, minw |-> minw, maxw |-> maxw]

\* GetWaveSet() of a source spectrum
RECURSIVE SpWaveSet(_)
SpWaveSet(sp) ==
    IF sp.kind = "Zero" THEN sp.wave
    ELSE IF sp.kind = "SpMul"
    THEN SpWaveSet(sp.left) \cup GetWaveSet(sp.right)
    ELSE IF sp.kind = "SpAdd" THEN SpWaveSet(sp.left) \cup sp.right.wave
    ELSE { w \in SpWaveSet(sp.of) : sp.minw <= w /\ w <= sp.maxw }

\* lines 547-550: beamFillFactor * bb(wave, temperature) * emissivity
Emission(emissivity, wave) ==
    [kind |-> "Emission", emissivity |-> emissivity, wave |-> wave]

\* lines 540-541
Transmit(sp, component) ==
    IF component.throughput # NoneVal THEN SpMul(sp, component.throughput)
    ELSE sp

\* (mutant) the sum is not trimmed
EmitUntrimmed(sp, component, minw, maxw) ==
    IF component.emissivity # NoneVal
    THEN SpAdd(sp, Emission(component.emissivity, SpWaveSet(sp)))
    ELSE sp

\* lines 546-554
Emit(sp, component, minw, maxw) ==
    IF component.emissivity # NoneVal
    THEN TrimSpectrum(SpAdd(sp, Emission(component.emissivity, SpWaveSet(sp))),
                      minw, maxw)
    ELSE sp

\* (mutant) the emission is added before the throughput is applied
StepEmitFirst(sp, component, minw, maxw) ==
    Transmit(Emit(sp, component, minw, maxw), component)

\* lines 539-554: one pass of the loop body
Step(sp, component, minw, maxw) ==
    Emit(Transmit(sp, component), component, minw, maxw)

\* lines 538-554
RECURSIVE SynthesisLoop(_, _, _, _)
SynthesisLoop(sp, components, minw, maxw) ==
    IF Len(components) = 0 THEN sp
    ELSE SynthesisLoop(Step(sp, Head(components), minw, maxw),
                       Tail(components), minw, maxw)

\* lines 583-591: the position after the first emissive component and its
\* grid; nothing is assigned to result when no component is emissive
RECURSIVE FirstEmissivity(_, _)
FirstEmissivity(components, index) ==
    IF Len(components) = 0 THEN [found |-> FALSE, index |-> index]
    ELSE IF Head(components).emissivity = NoneVal
    THEN FirstEmissivity(Tail(components), index + 1)
    ELSE [found |-> TRUE, index |-> index,
          result |-> EmissivityWaveSet(Head(components).emissivity)]

\* lines 593-596
RECURSIVE MergeRest(_, _)
MergeRest(waves, rest) ==
    IF Len(rest) = 0 THEN waves
    ELSE IF Head(rest).emissivity # NoneVal
    THEN MergeRest(MergeWaveSets(waves,
                                 EmissivityWaveSet(Head(rest).emissivity)),
                   Tail(rest))
    ELSE MergeRest(waves, Tail(rest))

WaveArray(items) == [kind |-> "array", items |-> items]

\* (mutant) the second loop starts one component too late
MergeFromFirstSkipping(components, first) ==
    IF ~first.found THEN UnboundLocalError
    ELSE WaveArray(MergeRest(first.result, Tail1(components, first.index + 2)))

\* lines 593-597, given the outcome of the first loop
MergeFromFirst(components, first) ==
    IF ~first.found THEN UnboundLocalError
    ELSE WaveArray(MergeRest(first.result, Tail1(components, first.index + 1)))

\* _ThermalObservationMode._mergeEmissivityWavesets
MergeEmissivityWavesets(components) ==
    MergeFromFirst(components, FirstEmissivity(components, 1))

Max2(a, b) == IF a >= b THEN a ELSE b
Min2(a, b) == IF a <= b THEN a ELSE b

\* lines 562-567 over the components still to be read: <<minw, maxw>>
RECURSIVE IntersectionBounds(_, _, _)
IntersectionBounds(rest, minw, maxw) ==
    IF Len(rest) = 0 THEN <<minw, maxw>>
    ELSE IF Head(rest).emissivity # NoneVal
    THEN IntersectionBounds(Tail(rest),
             Max2(minw, EmissivityWaveSet(Head(rest).emissivity)[1]),
             Min2(maxw, EmissivityWaveSet(Head(rest).emissivity)
                          [Len(EmissivityWaveSet(Head(rest).emissivity))]))
    ELSE IntersectionBounds(Tail(rest), minw, maxw)

\* N.compress(result > minw, result), N.compress(result < maxw, result)
RECURSIVE Compress(_, _, _)
Compress(waves, minw, maxw) ==
    IF Len(waves) = 0 THEN <<>>
    ELSE IF Head(waves) > minw /\ Head(waves) < maxw
    THEN <<Head(waves)>> \o Compress(Tail(waves), minw, maxw)
    ELSE Compress(Tail(waves), minw, maxw)

\* lines 569-580, given the bounds and the merged grid
IntersectMerged(bounds, merged) ==
    IF IsException(merged) THEN merged
    ELSE WaveArray(Compress(Compress(merged.items, bounds[1], bounds[2]),
                            VegaWaveSet[1], VegaWaveSet[Len(VegaWaveSet)]))

\* _ThermalObservationMode._getWavesetIntersection: the loop of line 562
\* reads components[1:]
GetWavesetIntersection(components) ==
    IntersectMerged(
        IntersectionBounds(Tail1(components, 2), DefaultWaveSet[1],
                           DefaultWaveSet[Len(DefaultWaveSet)]),
        MergeEmissivityWavesets(components))

\* lines 528-556, given the working grid; sp._wavetable[0] of an empty grid
\* is an IndexError
SpectrumOn(components, wave) ==
    IF IsException(wave) THEN wave
    ELSE IF Len(wave.items) = 0 THEN IndexError
    ELSE [kind |-> "ok",
          sp |-> SynthesisLoop(ZeroSpectrum(wave.items), components,
                               wave.items[1], wave.items[Len(wave.items)])]

\* _ThermalObservationMode._getSpectrum
GetSpectrum(mode) ==
    SpectrumOn(mode.components, GetWavesetIntersection(mode.components))

\* lines 518-522: the number of leading components without throughput
RECURSIVE FirstTransmissive(_, _)
FirstTransmissive(components, index) ==
    IF Len(components) = 0 THEN index
    ELSE IF Head(components).throughput # NoneVal THEN index
    ELSE FirstTransmissive(Tail(components), index + 1)

\* the methods BaseObservationMode defines (lines 84-250)
BaseMethods ==
    {"__init__", "__str__", "__len__", "_getFileNames", "GetFileNames",
     "showfiles", "bandWave", "_computeBandwave",
     "_computeQuadraticCoefficients", "_getBandwaveFomFile"}

\* _ThermalObservationMode._multiplyThroughputs: line 524 calls
\* BaseObservationMode._multiplyThroughputs(self, index)
ThermalMultiplyThroughputsOf(mode) ==
    IF "_multiplyThroughputs" \in BaseMethods
    THEN Return("_multiplyThroughputs", NoneVal,
                CallMultiplyThroughputs(mode.components,
                    <<FirstTransmissive(mode.components, 0)>>))
    ELSE Raise("_multiplyThroughputs", NoneVal, AttributeError)

ThermalMultiplyThroughputs ==
    /\ thom # NoneVal
    /\ result' = ThermalMultiplyThroughputsOf(thom)
    /\ printed' = <<>>
    /\ UNCHANGED <<threads, arg, base, wrapped, GRAPHDICT, COMPDICT, component_dict,
                   om, nconstructed, built, reused, THERMDICT, thom>>

\* the IndexError of line 424
BrokenGraphTable ==
    [kind |-> "message",
     text |-> "Cannot calculate thermal spectrum; graphtable may be broken"]

\* (mutant) every exception is raised anew as the IndexError of line 424
ThermalRaiseIndexError(exc) ==
    [op |-> "ThermalSpectrum", outcome |-> "raise", exc |-> "IndexError",
     args |-> NoneVal, value |-> BrokenGraphTable]

\* lines 418-424: an IndexError is raised anew, any other exception passes
ThermalRaise(exc) ==
    [op |-> "ThermalSpectrum", outcome |-> "raise", exc |-> exc.kind,
     args |-> NoneVal,
     value |-> IF exc.kind = "IndexError" THEN BrokenGraphTable ELSE NoneVal]

\* lines 422-424, given the outcome of _getSpectrum
ThermalSpectrumOf(sp) ==
    IF IsException(sp) THEN ThermalRaise(sp)
    ELSE Return("ThermalSpectrum", NoneVal, sp.sp)

\* (mutant) the pixel scale is assigned only when a spectrum is returned
ThermalSpectrumFromAtomic(t) ==
    /\ GRAPHDICT' = t.GRAPHDICT
    /\ COMPDICT' = t.COMPDICT
    /\ THERMDICT' = t.THERMDICT
    /\ printed' = t.printed
    /\ thom' = t.thom
    /\ IF t.kind # "ok"
       THEN /\ result' = ThermalRaise(t)
            /\ om' = om
       ELSE /\ om' = IF IsException(GetSpectrum(t.thom)) THEN om
                     ELSE [om EXCEPT !.pixscale = t.thom.pixscale]
            /\ result' = ThermalSpectrumOf(GetSpectrum(t.thom))

\* lines 418-424, given the outcome of _ThermalObservationMode(self._obsmode)
ThermalSpectrumFrom(t) ==
    /\ GRAPHDICT' = t.GRAPHDICT
    /\ COMPDICT' = t.COMPDICT
    /\ THERMDICT' = t.THERMDICT
    /\ printed' = t.printed
    /\ thom' = t.thom
    /\ IF t.kind # "ok"
       THEN /\ result' = ThermalRaise(t)
            /\ om' = om
       ELSE /\ om' = [om EXCEPT !.pixscale = t.thom.pixscale]
            /\ result' = ThermalSpectrumOf(GetSpectrum(t.thom))

\* ObservationMode.ThermalSpectrum
ThermalSpectrum ==
    /\ om # NoneVal
    /\ ThermalSpectrumFrom(ThermalInit(om.obsmode, GRAPHDICT, COMPDICT,
                                       THERMDICT))
    /\ UNCHANGED <<threads, arg, base, wrapped, component_dict, nconstructed, built,
                   reused>>

(***************************************************************************)
(* The parser on its own: a mode string is drawn from the strings built    *)
(* of at most MaxPieces pieces, and resolved bare and inside band(...).    *)
(***************************************************************************)
Pieces ==
    { <<"B">>, <<",">>, <<"#">>, <<"1">>, <<".">>,
      <<"B","a","N","D","(">>, <<")">> }

RECURSIVE PieceStrings(_)
PieceStrings(n) ==
    IF n = 0 THEN { <<>> }
    ELSE LET shorter == PieceStrings(n-1)
         IN  shorter \cup { s \o p : s \in shorter, p \in Pieces }

\* mode strings of the documentation and the tests
Examples ==
    { <<"a","#","1",".","0",",","b">>,
      <<"a","#","1",",","a","#","2">>,
      <<"a","#","-","1","e","2",",","b">>,
      <<"a","#","n","a","n">>,
      <<"A","c","s",",","m","J","d","#","5","4","0","0","0">>,
      <<"b","a","n","d","(","a",",","m","#","1",".","5",")">> }

ParseInputs == PieceStrings(MaxPieces) \cup Examples

\* spellings of the wrapper's opening
BandSpellings == { BandOpen, <<"B","A","N","D","(">>, <<"B","a","n","d","(">> }

\* open + s + ')'
Wrap(open, s) == open \o s \o <<")">>

InitCommon ==
    /\ GRAPHDICT = NoTables
    /\ COMPDICT = NoTables
    /\ component_dict = [c \in CacheNames |-> NoComponents]
    /\ om = NoneVal
    /\ result = NoneVal
    /\ nconstructed = 0
    /\ built = {}
    /\ reused = {}
    /\ THERMDICT = NoTables
    /\ printed = <<>>
    /\ thom = NoneVal
    /\ threads = <<>>

InitParse ==
    /\ arg \in ParseInputs
    /\ base = NoneVal
    /\ wrapped = NoneVal
    /\ InitCommon

\* BaseObservationMode(arg)
Resolve ==
    /\ base = NoneVal
    /\ LET r == BaseInit(arg, DefaultGraphTable, GRAPHDICT)
       IN  base' = r.obj /\ GRAPHDICT' = r.dict /\ printed' = r.printed
    /\ UNCHANGED <<threads, arg, wrapped, COMPDICT, component_dict, om, result,
                   nconstructed, built, reused, THERMDICT, thom>>

\* BaseObservationMode('band(' + arg + ')'), in any spelling of 'band'
ResolveWrapped(open) ==
    /\ wrapped = NoneVal
    /\ LET r == BaseInit(Wrap(open, arg), DefaultGraphTable, GRAPHDICT)
       IN  wrapped' = r.obj /\ GRAPHDICT' = r.dict /\ printed' = r.printed
    /\ UNCHANGED <<threads, arg, base, COMPDICT, component_dict, om, result,
                   nconstructed, built, reused, THERMDICT, thom>>

NextParse == Resolve \/ \E open \in BandSpellings : ResolveWrapped(open)

SpecParse == InitParse /\ [][NextParse]_vars

(***************************************************************************)
(* The thermal component builder on lists of file names of any length, as  *)
(* line 472 calls it inside the try block of ThermalSpectrum().            *)
(***************************************************************************)
OpticalNames == { CLEAR, <<"/","x">>, <<"/","z","[","m","#","]">> }
ThermalNames == { CLEAR, <<"/","y">> }

SeqsUpTo(S, n) == UNION { [1..k -> S] : k \in 0..n }

PairingInputs ==
    { [tfiles |-> t, thfiles |-> th] :
        t \in SeqsUpTo(OpticalNames, MaxNames),
        th \in SeqsUpTo(ThermalNames, MaxNames) }

\* the parameters of the mode string 'm#1'
PairingParDict == [k \in { <<"m">> } |-> FloatOf(<<"1">>)]

InitPairing ==
    /\ arg \in PairingInputs
    /\ base = NoneVal
    /\ wrapped = NoneVal
    /\ InitCommon

\* lines 418-424, given the outcome of line 472
ThermalChainOf(tc) ==
    IF IsException(tc) THEN ThermalRaise(tc)
    ELSE Return("_getThermalComponents", NoneVal, tc.components)

\* self._getThermalComponents(throughput_filenames, thermal_filenames)
BuildThermalChain ==
    /\ result = NoneVal
    /\ result' = ThermalChainOf(GetThermalComponents(arg.tfiles, arg.thfiles,
                                     PairingParDict, 1, <<>>))
    /\ UNCHANGED <<threads, arg, base, wrapped, GRAPHDICT, COMPDICT, component_dict,
                   om, nconstructed, built, reused, THERMDICT, printed, thom>>

SpecPairing == InitPairing /\ [][BuildThermalChain]_vars

(***************************************************************************)
(* The program: constructions sharing the table caches and the component   *)
(* caches, and calls on the mode constructed last.                         *)
(***************************************************************************)
Init ==
    /\ arg = <<>>
    /\ base = NoneVal
    /\ wrapped = NoneVal
    /\ InitCommon

Next == ConstructAny \/ Throughput \/ Sensitivity \/ GetFileNames

Spec == Init /\ [][Next]_vars

(***************************************************************************)
(* Constructors run by several threads.  A thread is at one cache lookup   *)
(* of its constructor, lines 110-114 for a graph table or lines 332-337    *)
(* for a component, and moves by the steps between which another thread    *)
(* can run: the membership test, the read of the entry, the allocation of  *)
(* the new object, the end of its constructor, the assignment of the       *)
(* entry.                                                                  *)
(***************************************************************************)
NThreads == 2
Threads == 1..NThreads

\* the lookups: a graph table by name, a component by file name and parameter
Lookups ==
    { [cache |-> "GRAPHDICT", table |-> n, key |-> NoneVal] :
        n \in GraphTableNames }
    \cup { [cache |-> "default", table |-> "", key |-> k] :
             k \in { CacheKey(<<"/","x">>, NoneVal),
                     CacheKey(<<"/","z","[","m","#","]">>,
                              FloatOf(<<"1">>)) } }

\* lines 110 and 332: the key of the lookup is in its cache
Hit(lookup) ==
    IF lookup.cache = "GRAPHDICT" THEN lookup.table \in DOMAIN GRAPHDICT
    ELSE CacheHit(lookup.key, component_dict[lookup.cache])

\* lines 111 and 333: the entry of the lookup
Entry(lookup) ==
    IF lookup.cache = "GRAPHDICT" THEN GRAPHDICT[lookup.table]
    ELSE component_dict[lookup.cache][lookup.key]

\* an object whose constructor has not returned: line 113 inside
\* GraphTable(graphtable), lines 334-335 inside _Component.__init__ before
\* line 612
Allocated(lookup, id) ==
    IF lookup.cache = "GRAPHDICT"
    THEN [name |-> lookup.table, rows |-> Unset]
    ELSE [id |-> id, throughput_name |-> lookup.key.name,
          throughput |-> Unset, empty |-> TRUE]

\* the object when its constructor has returned
Completed(lookup, object) ==
    IF lookup.cache = "GRAPHDICT" THEN GraphTable(lookup.table)
    ELSE Component(object.id, lookup.key.name, lookup.key.interpval)

\* lines 114 and 336: the cache with the entry assigned
Assigned(key, dict, object) == (key :> object) @@ dict

\* the history entry of the object a lookup builds
BuildOf(lookup, h) ==
    NewBuild(lookup.cache,
             IF lookup.cache = "GRAPHDICT"
             THEN CacheKey(<<lookup.table>>, NoneVal) ELSE lookup.key, h)

InitRace ==
    /\ arg = <<>>
    /\ base = NoneVal
    /\ wrapped = NoneVal
    /\ GRAPHDICT = NoTables
    /\ COMPDICT = NoTables
    /\ component_dict = [c \in CacheNames |-> NoComponents]
    /\ om = NoneVal
    /\ result = NoneVal
    /\ nconstructed = 0
    /\ built = {}
    /\ reused = {}
    /\ THERMDICT = NoTables
    /\ printed = <<>>
    /\ thom = NoneVal
    /\ threads \in [Threads -> { [pc |-> "check", lookup |-> l,
                                   local |-> NoneVal] : l \in Lookups }]

\* lines 110 and 332: the membership test
RaceCheck(t) ==
    /\ threads[t].pc = "check"
    /\ threads' = [threads EXCEPT ![t].pc =
                      IF Hit(threads[t].lookup)
                      THEN "read" ELSE "allocate"]
    /\ UNCHANGED <<arg, base, wrapped, GRAPHDICT, COMPDICT, component_dict,
                   om, result, nconstructed, built, reused, THERMDICT,
                   printed, thom>>

\* lines 111 and 333: the entry is read
RaceRead(t) ==
    /\ threads[t].pc = "read"
    /\ threads' = [threads EXCEPT
                      ![t].pc = "done",
                      ![t].local = Entry(threads[t].lookup)]
    /\ reused' = reused \cup {threads[t].lookup}
    /\ UNCHANGED <<arg, base, wrapped, GRAPHDICT, COMPDICT, component_dict,
                   om, result, nconstructed, built, THERMDICT, printed, thom>>

\* (mutant) the new object is assigned to the cache when it is allocated
RaceAllocatePublishing(t) ==
    /\ threads[t].pc = "allocate"
    /\ threads[t].lookup.cache = "default"
    /\ threads' = [threads EXCEPT
                      ![t].pc = "construct",
                      ![t].local =
                          Allocated(threads[t].lookup,
                                    BuildOf(threads[t].lookup, built))]
    /\ built' = built \cup {BuildOf(threads[t].lookup, built)}
    /\ component_dict' =
          [component_dict EXCEPT !["default"] =
              Assigned(threads[t].lookup.key, component_dict["default"],
                       Allocated(threads[t].lookup,
                                 BuildOf(threads[t].lookup, built)))]
    /\ UNCHANGED <<arg, base, wrapped, GRAPHDICT, COMPDICT,
                   om, result, nconstructed, reused, THERMDICT, printed,
                   thom>>

\* lines 113 and 334: the new object exists, its constructor is running
RaceAllocate(t) ==
    /\ threads[t].pc = "allocate"
    /\ threads' = [threads EXCEPT
                      ![t].pc = "construct",
                      ![t].local =
                          Allocated(threads[t].lookup,
                                    BuildOf(threads[t].lookup, built))]
    /\ built' = built \cup {BuildOf(threads[t].lookup, built)}
    /\ UNCHANGED <<arg, base, wrapped, GRAPHDICT, COMPDICT, component_dict,
                   om, result, nconstructed, reused, THERMDICT, printed,
                   thom>>

\* lines 113 and 334-335: the constructor returns
RaceConstruct(t) ==
    /\ threads[t].pc = "construct"
    /\ threads' = [threads EXCEPT
                      ![t].pc = "insert",
                      ![t].local = Completed(threads[t].lookup,
                                             threads[t].local)]
    /\ UNCHANGED <<arg, base, wrapped, GRAPHDICT, COMPDICT, component_dict,
                   om, result, nconstructed, built, reused, THERMDICT,
                   printed, thom>>

\* lines 114 and 336: the entry is assigned
RaceInsert(t) ==
    /\ threads[t].pc = "insert"
    /\ threads' = [threads EXCEPT ![t].pc = "done"]
    /\ IF threads[t].lookup.cache = "GRAPHDICT"
       THEN /\ GRAPHDICT' = Assigned(threads[t].lookup.table, GRAPHDICT,
                                     threads[t].local)
            /\ UNCHANGED component_dict
       ELSE /\ component_dict' =
                  [component_dict EXCEPT ![threads[t].lookup.cache] =
                      Assigned(threads[t].lookup.key,
                               component_dict[threads[t].lookup.cache],
                               threads[t].local)]
            /\ UNCHANGED GRAPHDICT
    /\ UNCHANGED <<arg, base, wrapped, COMPDICT, om, result, nconstructed,
                   built, reused, THERMDICT, printed, thom>>

NextRace ==
    \E t \in Threads :
        \/ RaceCheck(t)
        \/ RaceRead(t)
        \/ RaceAllocate(t)
        \/ RaceConstruct(t)
        \/ RaceInsert(t)

SpecRace == InitRace /\ [][NextRace]_vars

(***************************************************************************)
(* The table caches: constructions naming any tables, some of them files   *)
(* that do not exist, and the thermal modes built for the mode constructed *)
(* last.                                                                   *)
(***************************************************************************)
\* 'm#x' does not parse: the constructor fails before it reads a table
TableModes == { <<"a",",","b">>, <<"o",",","b">>, <<"m","#","x">> }

\* g0 and c0 name no file
AnyTables == RefTables \cup { <<"g0", "c1">>, <<"g1", "c0">> }

ConstructTables ==
    /\ nconstructed < MaxConstructions
    /\ nconstructed' = nconstructed + 1
    /\ \E obsmode \in TableModes, tables \in AnyTables :
          Construct(obsmode, tables[1], tables[2], "default")
    /\ UNCHANGED <<threads, arg, base, wrapped, THERMDICT, thom>>

NextTables == ConstructTables \/ ThermalSpectrum

SpecTables == Init /\ [][NextTables]_vars

(***************************************************************************)
(* One mode and the calls on it: a mode is constructed from a mode string  *)
(* naming at most one keyword per node of the graph, and its methods are   *)
(* called in any order.                                                    *)
(***************************************************************************)
\* k1 [,k2 [,k3]] for the keywords given, empty ones left out
JoinKeywords(k1, k2, k3) ==
    Join(<<",">>, SelectSeq(<<k1, k2, k3>>, NonBlank))

CallModes ==
    { JoinKeywords(k1, k2, k3) :
        k1 \in { <<>>, <<"a">>, <<"o">> },
        k2 \in { <<>>, <<"b">>, <<"m","#","1">> },
        k3 \in { <<>>, <<"c">>, <<"d">>, <<"e">> } }
    \cup { <<"A",",","B">> }

ConstructOne ==
    /\ nconstructed = 0
    /\ nconstructed' = 1
    /\ \E obsmode \in CallModes, tables \in RefTables :
          Construct(obsmode, tables[1], tables[2], "default")
    /\ UNCHANGED <<threads, arg, base, wrapped, THERMDICT, thom>>

NextCalls ==
    \/ ConstructOne
    \/ Throughput
    \/ Sensitivity
    \/ GetFileNames
    \/ BandWave
    \/ ThermalSpectrum
    \/ ThermalMultiplyThroughputs

SpecCalls == Init /\ [][NextCalls]_vars

(***************************************************************************)
(* Properties of the parser (specification SpecParse).                     *)
(***************************************************************************)
Resolved(m) == m # NoneVal /\ m.kind = "BaseObservationMode"

HashCount(tok) == Cardinality({ i \in 1..Len(tok) : tok[i] = "#" })
KeyOf(tok) == SubSeq(tok, 1, FindChar("#", tok) - 1)
ValueOf(tok) == Tail1(tok, FindChar("#", tok) + 1)
Placeholder(tok) == Append(KeyOf(tok), "#")

\* the last token of toks that carries the key of toks[i]
LastWithKey(toks, i) ==
    CHOOSE j \in i..Len(toks) :
        /\ HasChar("#", toks[j]) /\ KeyOf(toks[j]) = KeyOf(toks[i])
        /\ \A k \in (j+1)..Len(toks) :
              ~(HasChar("#", toks[k]) /\ KeyOf(toks[k]) = KeyOf(toks[i]))

\* keywords and parameters of mode m are those read off the tokens toks, a
\* repeated key taking the value of its last token
ParsedFrom(m, toks) ==
    /\ Len(m.modes) = Len(toks)
    /\ \A i \in 1..Len(toks) :
          IF HasChar("#", toks[i])
          THEN /\ m.modes[i] = Placeholder(toks[i])
               /\ KeyOf(toks[i]) \in DOMAIN m.pardict
               /\ m.pardict[KeyOf(toks[i])] =
                      FloatOf(ValueOf(toks[LastWithKey(toks, i)]))
          ELSE m.modes[i] = toks[i]
    /\ DOMAIN m.pardict =
          { KeyOf(toks[i]) : i \in { k \in 1..Len(toks) : HasChar("#", toks[k]) } }
    /\ (\A i \in 1..Len(toks) : ~HasChar("#", toks[i])) => m.modes = toks

ExampleA1B == <<"a","#","1",".","0",",","b">>
One == [kind |-> "float", num |-> 1, exp |-> 0]

\* "a#1.0,b" gives keywords ["a#", "b"] and parameters {"a": 1.0}
ExampleParsed(m) ==
    /\ m.modes = << <<"a","#">>, <<"b">> >>
    /\ m.pardict = (<<"a">> :> One)

\* C1: the keywords and parameters of every constructed mode are read off
\* the comma-split of the lowercased mode string (the text the band(...)
\* stripping leaves): a token with '#' becomes 'key#' at the same position
\* and parameters[key] is the number after the '#' (of the last token with
\* that key), a token without '#' is unchanged; with no '#' the keywords are
\* the plain split, and "a#1.0,b" gives ["a#","b"] and {"a": 1.0}.
C1_ParseContract ==
    Resolved(base) =>
        /\ ParsedFrom(base, Split(Lower(StripBand(arg)), ","))
        /\ arg = ExampleA1B => ExampleParsed(base)

C1_Witness == Resolved(base) /\ arg = ExampleA1B

\* C2 as stated: the empty mode string parses to zero keywords and no
\* parameters.
C2_Original ==
    (arg = <<>> /\ base # NoneVal) =>
        /\ Resolved(base)
        /\ Len(base.modes) = 0
        /\ DOMAIN base.pardict = {}

\* C2 (amended): parsing the empty mode string does not fail and yields a
\* keyword list holding exactly one keyword, the empty string, and an empty
\* parameter mapping.
C2_EmptyMode ==
    (arg = <<>> /\ base # NoneVal) =>
        /\ Resolved(base)
        /\ base.modes = << <<>> >>
        /\ DOMAIN base.pardict = {}

C2_Witness == arg = <<>> /\ Resolved(base)

\* a 'key#value' token whose value is not a number or is empty, or a token
\* with more than one '#'
Malformed(tok) ==
    /\ HasChar("#", tok)
    /\ \/ HashCount(tok) > 1
       \/ FloatOf(ValueOf(tok)) = ValueError

ContainsMalformed(s) ==
    LET toks == Split(Lower(s), ",")
    IN  \E i \in 1..Len(toks) : Malformed(toks[i])

\* C3: a mode string whose text (what the band(...) stripping leaves) has a
\* malformed parameterized token (a value that is not a number or is empty,
\* or more than one '#') fails with ValueError and no mode object is
\* produced.
C3_MalformedFails ==
    (base # NoneVal /\ ContainsMalformed(StripBand(arg))) => base = ValueError

C3_Witness ==
    /\ base = ValueError
    /\ ContainsMalformed(StripBand(arg))
    /\ HasChar(",", arg)

\* band\((.*?)\) matches s from position i up to the ')' at position j
WrapperAt(s, i, j) ==
    /\ i + 5 <= j /\ j <= Len(s)
    /\ Lower(SubSeq(s, i, i+4)) = BandOpen
    /\ s[j] = ")"
    /\ \A k \in (i+5)..(j-1) : s[k] \notin {")", "\n"}

HasWrapper(s) == \E i, j \in 1..Len(s) : WrapperAt(s, i, j)

\* C4 as stated: the raw string of every resolved mode is the mode string
\* it was resolved from, wrapper and letter case included.
C4_Original == Resolved(base) => StrOf(base) = arg

\* C4 (amended): the raw string of a resolved mode equals s, letter case
\* included, when s has no band(...) occurrence; otherwise it is the text
\* between the leftmost 'band(' (in any letter case) and the first ')' after
\* it, letter case included.
C4_RawString ==
    Resolved(base) =>
        IF HasWrapper(arg)
        THEN \E i, j \in 1..Len(arg) :
                /\ WrapperAt(arg, i, j)
                /\ \A i2 \in 1..(i-1), j2 \in 1..Len(arg) :
                      ~WrapperAt(arg, i2, j2)
                /\ StrOf(base) = SubSeq(arg, i+5, j-1)
        ELSE StrOf(base) = arg

C4_Witness ==
    /\ Resolved(base)
    /\ HasWrapper(arg)
    /\ HasChar("B", StrOf(base))
    /\ Len(arg) > Len(StrOf(base)) + 6

\* the two resolutions agree: both fail, or both give the same keywords,
\* parameters and component names
SameResolution(m1, m2) ==
    \/ m1 = ValueError /\ m2 = ValueError
    \/ /\ Resolved(m1) /\ Resolved(m2)
       /\ m1.modes = m2.modes
       /\ m1.pardict = m2.pardict
       /\ m1.compnames = m2.compnames
       /\ m1.thcompnames = m2.thcompnames

\* C5 as stated: for every mode string X, 'band(X)' resolves as X does.
C5_Original ==
    (base # NoneVal /\ wrapped # NoneVal) => SameResolution(base, wrapped)

\* C5 (amended): for every mode string X that contains no ')' and no line
\* break, 'band(X)', in any letter case of 'band', resolves to the same
\* keywords, parameters and component names as X.
C5_WrapperStripped ==
    (base # NoneVal /\ wrapped # NoneVal
        /\ ~HasChar(")", arg) /\ ~HasChar("\n", arg))
    => SameResolution(base, wrapped)

C5_Witness ==
    /\ Resolved(base) /\ Resolved(wrapped)
    /\ ~HasChar(")", arg)
    /\ DOMAIN base.pardict # {}
    /\ HasChar("B", arg)
    /\ base.compnames # <<CLEAR, CLEAR, <<>> >>

(***************************************************************************)
(* Properties of construction and optical composition (specification Spec).*)
(***************************************************************************)
Constructed == result # NoneVal /\ result.op = "ObservationMode"
ConstructedOK == Constructed /\ result.outcome = "return"

\* the component names the graph table named in the last constructor call
\* resolves for the call's mode string
NamesOfCall ==
    GetComponentsFromGT(GraphTable(result.args.graphtable),
                        ParseMode(StripBand(result.args.obsmode)).modes, 1)[1]

ParsesOK(obsmode) == ParseMode(StripBand(obsmode)) # ValueError

IsClearName(name) == name \in {NoneName, <<>>, CLEAR}

\* the rows of component table ct that carry the name
RowsNamed(ct, name) ==
    { r \in 1..Len(CompTable(ct).rows) : CompTable(ct).rows[r].compname = name }

\* name resolves in component table ct to file: the file name of its
\* first row, converted and stripped of leading blanks
TableFile(ct, name, file) ==
    /\ RowsNamed(ct, name) # {}
    /\ file = Lstrip(IrafConvert(
                 CompTable(ct).rows[Min(RowsNamed(ct, name))].filename))

\* C6: after a construction that gets as far as the file lookup, every
\* component name that is None, empty or clear gives the clear sentinel and
\* every other name its table file name, in a list of the same length and
\* order as the component names; when such a name is absent from the
\* component table the construction raises IndexError, and the mode the
\* caller held stays as it was.
C6_FileLookup ==
    /\ [](ConstructedOK =>
            /\ Len(om.throughput_filenames) = Len(om.compnames)
            /\ om.compnames = NamesOfCall
            /\ \A i \in 1..Len(om.compnames) :
                  IF IsClearName(om.compnames[i])
                  THEN om.throughput_filenames[i] = CLEAR
                  ELSE TableFile(result.args.comptable, om.compnames[i],
                                 om.throughput_filenames[i]))
    /\ []((Constructed /\ ParsesOK(result.args.obsmode)) =>
            ((\E i \in 1..Len(NamesOfCall) :
                 /\ ~IsClearName(NamesOfCall[i])
                 /\ RowsNamed(result.args.comptable, NamesOfCall[i]) = {})
             <=> (result.outcome = "raise" /\ result.exc = "IndexError")))
    /\ [][(nconstructed' # nconstructed /\ result'.outcome = "raise")
             => om' = om]_vars

C6_Witness ==
    /\ Constructed /\ result.outcome = "raise" /\ result.exc = "IndexError"
    /\ om # NoneVal
    /\ \E i, j \in 1..Len(om.compnames) :
          /\ om.compnames[i] = <<>>
          /\ om.throughput_filenames[i] = CLEAR
          /\ om.throughput_filenames[j] # CLEAR

Called(op) == result # NoneVal /\ result.op = op

\* C7 as stated: Throughput() on a mode with an empty component list fails
\* with an error that reaches the caller.
C7_Original ==
    (Called("Throughput") /\ Len(om.components) = 0)
        => (result.outcome = "raise" /\ result.exc = "IndexError")

\* C7 (amended): Throughput() on a mode with an empty component list returns
\* None: the IndexError of the empty chain is caught inside Throughput() and
\* does not reach the caller, and no curve is returned.
C7_EmptyChain ==
    (Called("Throughput") /\ Len(om.components) = 0)
        => (result.outcome = "return" /\ result.value = NoneVal)

C7_Witness ==
    /\ Called("Throughput") /\ Len(om.components) = 0
    /\ \A i \in 1..Len(om.throughput_filenames) :
          om.throughput_filenames[i] = CLEAR

\* ((c[1]*c[2])*...)*c[n]
RECURSIVE LeftProduct(_)
LeftProduct(curves) ==
    IF Len(curves) = 1 THEN curves[1]
    ELSE Mul(LeftProduct(SubSeq(curves, 1, Len(curves) - 1)),
             curves[Len(curves)])

\* the curves whose values are multiplied in v, left to right
RECURSIVE Factors(_)
Factors(v) ==
    IF v.kind = "times" THEN Factors(v.left) \o Factors(v.right)
    ELSE <<v.of>>

CurvesOf(mode) ==
    [i \in 1..Len(mode.components) |-> mode.components[i].throughput]

\* C8: for a mode with a non-empty component list Throughput() returns the
\* left-to-right product ((c[0]*c[1])*...)*c[n-1] of the components'
\* throughput curves, sampled on its own wavelength grid, every component
\* contributing exactly once and in chain order.
C8_LeftToRight ==
    (Called("Throughput") /\ Len(om.components) > 0) =>
        /\ result.outcome = "return"
        /\ result.value # NoneVal
        /\ result.value.wavetable = GetWaveSet(LeftProduct(CurvesOf(om)))
        /\ DOMAIN result.value.throughputtable = result.value.wavetable
        /\ \A w \in result.value.wavetable :
              /\ result.value.throughputtable[w]
                    = Sample(LeftProduct(CurvesOf(om)), w)
              /\ Factors(result.value.throughputtable[w]) = CurvesOf(om)

C8_Witness ==
    /\ Called("Throughput") /\ Len(om.components) = 3
    /\ result.outcome = "return" /\ result.value # NoneVal

\* C9: for every mode on which Throughput() returns a curve, Sensitivity()
\* returns a curve on the same wavelength grid whose value at each
\* wavelength w is throughput(w) * w * sensitivityConstant.
C9_Sensitivity ==
    (Called("Sensitivity") /\ ThroughputOf(om).value # NoneVal) =>
        /\ result.outcome = "return"
        /\ result.value # NoneVal
        /\ result.value.wavetable = ThroughputOf(om).value.wavetable
        /\ \A w \in result.value.wavetable :
              result.value.throughputtable[w] =
                  Times(Times(ThroughputOf(om).value.throughputtable[w],
                              Wave(w)),
                        om.constant)

\* the component objects held by a cache
Cached(dict) == { dict[k] : k \in DOMAIN dict }

\* the step is a construction that was handed cache c
ConstructionWith(c) ==
    /\ nconstructed' # nconstructed
    /\ result'.args.cache = c

\* what a construction handed cache c does to the component caches: entries
\* present stay the same objects, each absent key that is inserted was built
\* exactly once in this step, and the other caches are untouched
CacheStep(c) ==
    /\ \A k \in DOMAIN component_dict[c] :
          /\ k \in DOMAIN component_dict'[c]
          /\ component_dict'[c][k] = component_dict[c][k]
    /\ \A k \in DOMAIN component_dict'[c] \ DOMAIN component_dict[c] :
          /\ Cardinality({ e \in built' \ built : e.cache = c /\ e.key = k }) = 1
          /\ component_dict'[c][k].id \in built' \ built
    /\ \A e \in built' \ built :
          /\ e.cache = c
          /\ e.key \in DOMAIN component_dict'[c] \ DOMAIN component_dict[c]
    /\ \A e \in reused' \ reused :
          /\ e.cache = c
          /\ e.key \in DOMAIN component_dict'[c]
    /\ \A c2 \in CacheNames \ {c} : component_dict'[c2] = component_dict[c2]

\* the mode just constructed with cache c holds the cached objects
\* themselves
HoldsCachedObjects(c) ==
    (result'.outcome = "return") =>
        \A i \in 1..Len(om'.components) :
            om'.components[i] \in Cached(component_dict'[c])

\* never more than one build of a key in a cache
BuiltOnce == \A e \in built : e.gen = 1

\* C10 as stated: a key present in the cache yields the cached object, an
\* absent key is built once and inserted, no key is ever built twice in one
\* cache, and the cache is the only state a construction mutates.
C10_Original ==
    /\ []BuiltOnce
    /\ [][\A c \in CacheNames : ConstructionWith(c) =>
             /\ CacheStep(c)
             /\ HoldsCachedObjects(c)
             /\ GRAPHDICT' = GRAPHDICT
             /\ COMPDICT' = COMPDICT]_vars

\* C10 (amended): a key present in the cache yields the cached object, an
\* absent key is built once and inserted, no key is ever built twice in one
\* cache, and the cache handed in and the process-wide table caches
\* refs.GRAPHDICT and refs.COMPDICT are the only state a construction
\* mutates: the other component caches stay as they were.
C10_ComponentCache ==
    /\ []BuiltOnce
    /\ [][\A c \in CacheNames : ConstructionWith(c) =>
             /\ CacheStep(c)
             /\ HoldsCachedObjects(c)]_vars

C10_Witness ==
    /\ ConstructedOK
    /\ nconstructed = 2
    /\ Len(om.components) = 2
    /\ \A i \in 1..Len(om.components) :
          [cache |-> result.args.cache, key |-> om.components[i].id.key]
              \in reused
    /\ \E i \in 1..Len(om.components) :
          om.components[i].id.key.interpval # NoneVal

(***************************************************************************)
(* Properties of the calls on one mode (specification SpecCalls).          *)
(***************************************************************************)
\* the thermal component names of the chain ThermalSpectrum() resolves for
\* a mode
ThermalNamesOf(mode) ==
    GetComponentsFromGT(GraphTable(DefaultGraphTable), mode.modes, 1)[2]

\* no component of the chain names an emissivity curve
NoEmissivity(mode) ==
    \A i \in 1..Len(ThermalNamesOf(mode)) :
        ThermalNamesOf(mode)[i] \in {CLEAR, <<>>, <<"0",".","0">>}

\* C11: ThermalSpectrum() on a mode none of whose chain components has an
\* emissivity curve raises NotImplementedError, and that error is not the
\* IndexError raised for a broken graph table.
C11_Unsupported ==
    (Called("ThermalSpectrum") /\ NoEmissivity(om)) =>
        /\ result.outcome = "raise"
        /\ result.exc = "NotImplementedError"
        /\ result.value # BrokenGraphTable

\* 'a,m#1': the chain of 'a,b' without its only emissive component
C11_Witness ==
    /\ Called("ThermalSpectrum")
    /\ om.obsmode = <<"a",",","m","#","1">>
    /\ result.exc = "NotImplementedError"

\* the lines of detectors.dat whose key is the first two keywords of s
LinesOfKey(s) ==
    { i \in 1..Len(DetectorLines) :
        /\ Len(Split(s, ",")) >= 2
        /\ Tokens(DetectorLines[i])[1] =
               Split(s, ",")[1] \o <<",">> \o Split(s, ",")[2] }

\* C12: the pixel scale ThermalSpectrum() gives a mode is the value of a
\* line of the detector table whose key is exactly the first two keywords
\* of the mode string.
C12_PixelScale ==
    (om # NoneVal /\ om.pixscale # NoneVal) =>
        \E i \in LinesOfKey(om.obsmode) :
            om.pixscale = FloatOf(Tokens(DetectorLines[i])[2])

\* the binned-wavelength lookup of mode string s is ambiguous
Ambiguous(s) == WaveTableGet(Lower(StripBand(s))) = ValueError

\* C13 as stated: construction with an ambiguous binned-wavelength lookup
\* sets the mode's binned wavelength set to the match.
C13_Original ==
    (ConstructedOK /\ Ambiguous(result.args.obsmode)) => om.binset # Unset

\* C13 (amended): construction with an ambiguous binned-wavelength lookup
\* does not fail because of it and prints a warning, the mode's binned
\* wavelength set is left unset, and a later bandWave() raises
\* AttributeError.
C13_AmbiguousBinset ==
    /\ (Constructed /\ Ambiguous(result.args.obsmode)) =>
          /\ printed = <<"Warning">>
          /\ result.exc \notin {"ValueError", "KeyError"}
          /\ ConstructedOK => om.binset = Unset
    /\ (Called("bandWave") /\ Ambiguous(om.obsmode)) =>
          /\ result.outcome = "raise"
          /\ result.exc = "AttributeError"

C13_Witness ==
    /\ Called("bandWave")
    /\ Ambiguous(om.obsmode)
    /\ result.exc = "AttributeError"

\* C14: a call on a constructed mode changes no attribute of the mode but
\* the pixel scale, and the pixel scale changes in ThermalSpectrum() only.
C14_Immutable ==
    [][om # NoneVal =>
          /\ om' = [om EXCEPT !.pixscale = om'.pixscale]
          /\ om'.pixscale # om.pixscale => result'.op = "ThermalSpectrum"]_vars

\* a Throughput() call on a mode whose pixel scale ThermalSpectrum() has set
C14_Witness ==
    /\ Called("Throughput")
    /\ om.pixscale # NoneVal
    /\ Len(om.components) > 0

(***************************************************************************)
(* Properties of the component builder (specification Spec).               *)
(***************************************************************************)
\* the file name ends in '[key#]'
Parameterised(name) == EndsWith(name, <<"#", "]">>) /\ HasChar("[", name)
\* the key of a file name ending in '[key#]'
ParamKeyOf(name) == SubSeq(name, FindChar("[", name) + 1, Len(name) - 2)

\* the three cases of the builder, for a component built for (name, value)
BuiltFrom(c, name, value) ==
    /\ c.throughput_name = name
    /\ IsEmpty(c) <=> c.throughput = NoneVal
    /\ name = CLEAR => IsEmpty(c)
    /\ (name # CLEAR /\ ~Parameterised(name)) =>
          /\ ~IsEmpty(c)
          /\ c.throughput = TabularSpectralElement(name)
    /\ Parameterised(name) =>
          /\ ~IsEmpty(c)
          /\ value # NoneVal
          /\ c.throughput = InterpolatedSpectralElement(name, value)

NotClear(name) == name # CLEAR

\* C16: the component list of a mode is its resolved file names without
\* the clear ones, in the same order, and len(mode) is their number.
C16_ComponentOrder ==
    om # NoneVal =>
       /\ [i \in 1..Len(om.components) |-> om.components[i].throughput_name]
             = SelectSeq(om.throughput_filenames, NotClear)
       /\ LenOf(om) =
             Cardinality({ i \in 1..Len(om.throughput_filenames) :
                             om.throughput_filenames[i] # CLEAR })

\* two components kept around a clear name that was dropped
C16_Witness ==
    /\ ConstructedOK
    /\ LenOf(om) >= 2
    /\ \E i \in 1..Len(om.throughput_filenames) :
          om.throughput_filenames[i] = CLEAR

(***************************************************************************)
(* Properties of the thermal chain and of thermal synthesis                *)
(* (specification SpecCalls).                                              *)
(***************************************************************************)
\* the positions of the name pairs that are not both 'clear', ascending
KeptPairs(mode) ==
    Sorted({ i \in 1..Len(mode.throughput_filenames) :
               ~(/\ mode.throughput_filenames[i] = CLEAR
                 /\ mode.thermal_filenames[i] = CLEAR) })

\* C17: the thermal chain holds, in order, one component for every pair of
\* names that are not both 'clear'; a component has an emissivity curve
\* exactly when its thermal name is not 'clear', so that a component with
\* an emissivity curve and no throughput curve is in the chain.
C17_ThermalComponents ==
    thom # NoneVal =>
       /\ Len(thom.components) = Len(KeptPairs(thom))
       /\ \A j \in 1..Len(thom.components) :
             /\ j <= Len(KeptPairs(thom))
             /\ thom.components[j].throughput_name =
                   thom.throughput_filenames[KeptPairs(thom)[j]]
             /\ thom.components[j].thermal_name =
                   thom.thermal_filenames[KeptPairs(thom)[j]]
             /\ thom.components[j].emissivity # NoneVal
                   <=> thom.components[j].thermal_name # CLEAR
             /\ thom.components[j].throughput # NoneVal
                   <=> thom.components[j].throughput_name # CLEAR
             /\ ~IsEmpty(thom.components[j])

\* a chain with an opaque component
C17_Witness ==
    /\ thom # NoneVal
    /\ \E j \in 1..Len(thom.components) :
          /\ thom.components[j].throughput = NoneVal
          /\ thom.components[j].emissivity # NoneVal

Max(S) == CHOOSE i \in S : \A j \in S : i >= j

\* the emissivity grids of the components that have one
EmissivityGrids(components) ==
    { EmissivityWaveSet(components[i].emissivity) :
        i \in { k \in 1..Len(components) :
                  components[k].emissivity # NoneVal } }

\* the bounds of the intersection of the default grid, every emissivity
\* grid and the grid of the calibration spectrum
LowerBound(components) ==
    Max({DefaultWaveSet[1], VegaWaveSet[1]}
        \cup { g[1] : g \in EmissivityGrids(components) })
UpperBound(components) ==
    Min({DefaultWaveSet[Len(DefaultWaveSet)], VegaWaveSet[Len(VegaWaveSet)]}
        \cup { g[Len(g)] : g \in EmissivityGrids(components) })

\* the wavelengths of all emissivity grids
MergedWaves(components) ==
    UNION { Range(g) : g \in EmissivityGrids(components) }

\* C18: the working grid of a thermal chain is the merged emissivity
\* wavelengths strictly between the largest of the minimum wavelengths and
\* the smallest of the maximum wavelengths of the default grid, of the
\* emissivity grid of every component (the first included) and of the
\* calibration spectrum.
C18_WorkingGrid ==
    thom # NoneVal =>
       GetWavesetIntersection(thom.components) =
          WaveArray(Sorted({ w \in MergedWaves(thom.components) :
                               /\ LowerBound(thom.components) < w
                               /\ w < UpperBound(thom.components) }))

\* C19: for a chain with an emissive component the merge gives the
\* ascending, duplicate-free sequence of the wavelengths of the emissivity
\* grids of all components that have one.
C19_MergedGrid ==
    (thom # NoneVal /\ EmissivityGrids(thom.components) # {}) =>
       /\ ~IsException(MergeEmissivityWavesets(thom.components))
       /\ Range(MergeEmissivityWavesets(thom.components).items)
             = MergedWaves(thom.components)
       /\ \A i, j \in
               1..Len(MergeEmissivityWavesets(thom.components).items) :
             i < j => MergeEmissivityWavesets(thom.components).items[i]
                        < MergeEmissivityWavesets(thom.components).items[j]

\* two emissive components with a non-emissive one between them
C19_Witness ==
    /\ thom # NoneVal
    /\ \E i, j, k \in 1..Len(thom.components) :
          /\ i < j /\ j < k
          /\ thom.components[i].emissivity # NoneVal
          /\ thom.components[j].emissivity = NoneVal
          /\ thom.components[k].emissivity # NoneVal
          /\ EmissivityWaveSet(thom.components[i].emissivity)
                # EmissivityWaveSet(thom.components[k].emissivity)

\* the emissions summed in a spectrum, in the order they were added, each
\* with the throughputs it was multiplied by afterwards
RECURSIVE Terms(_)
Terms(sp) ==
    IF sp.kind = "Zero" THEN <<>>
    ELSE IF sp.kind = "SpMul"
    THEN [i \in 1..Len(Terms(sp.left)) |->
            [emissivity |-> Terms(sp.left)[i].emissivity,
             by |-> Append(Terms(sp.left)[i].by, sp.right)]]
    ELSE IF sp.kind = "SpAdd"
    THEN Append(Terms(sp.left),
                [emissivity |-> sp.right.emissivity, by |-> <<>>])
    ELSE Terms(sp.of)

\* the spectrum the sums, products and trims of sp start from
RECURSIVE StartOf(_)
StartOf(sp) ==
    IF sp.kind = "Zero" THEN sp
    ELSE IF sp.kind = "Trim" THEN StartOf(sp.of)
    ELSE StartOf(sp.left)

\* the throughput curves of the components that have one, in order
RECURSIVE ThroughputsOf(_)
ThroughputsOf(components) ==
    IF Len(components) = 0 THEN <<>>
    ELSE IF Head(components).throughput # NoneVal
    THEN <<Head(components).throughput>> \o ThroughputsOf(Tail(components))
    ELSE ThroughputsOf(Tail(components))

\* for every emissive component in chain order, its emission with the
\* throughputs of the components after it
RECURSIVE EmissionsOf(_)
EmissionsOf(components) ==
    IF Len(components) = 0 THEN <<>>
    ELSE IF Head(components).emissivity # NoneVal
    THEN <<[emissivity |-> Head(components).emissivity,
            by |-> ThroughputsOf(Tail(components))]>>
         \o EmissionsOf(Tail(components))
    ELSE EmissionsOf(Tail(components))

\* C20: the spectrum ThermalSpectrum() returns starts from the all-zero
\* spectrum and sums, in chain order, the emission of every emissive
\* component multiplied by the throughputs of exactly the components after
\* it.
C20_SynthesisOrder ==
    (Called("ThermalSpectrum") /\ result.outcome = "return") =>
       /\ StartOf(result.value).kind = "Zero"
       /\ Terms(result.value) = EmissionsOf(thom.components)

\* an emissive component with a throughput, followed by a transmissive one
C20_Witness ==
    /\ Called("ThermalSpectrum") /\ result.outcome = "return"
    /\ \E i, j \in 1..Len(thom.components) :
          /\ i < j
          /\ thom.components[i].emissivity # NoneVal
          /\ thom.components[i].throughput # NoneVal
          /\ thom.components[j].throughput # NoneVal

\* the bounds fixed before the loop: the ends of the working grid
GridMin(sp) == Min(StartOf(sp).wave)
GridMax(sp) == Max(StartOf(sp).wave)

\* every sum in sp is the argument of a trim to [minw, maxw]
RECURSIVE SumsTrimmed(_, _, _)
SumsTrimmed(sp, minw, maxw) ==
    IF sp.kind = "Zero" THEN TRUE
    ELSE IF sp.kind = "SpMul" THEN SumsTrimmed(sp.left, minw, maxw)
    ELSE IF sp.kind = "SpAdd" THEN FALSE
    ELSE /\ sp.minw = minw /\ sp.maxw = maxw
         /\ \A w \in SpWaveSet(sp) : minw <= w /\ w <= maxw
         /\ IF sp.of.kind = "SpAdd"
            THEN SumsTrimmed(sp.of.left, minw, maxw)
            ELSE SumsTrimmed(sp.of, minw, maxw)

\* the number of sums in sp
RECURSIVE Sums(_)
Sums(sp) ==
    IF sp.kind = "Zero" THEN 0
    ELSE IF sp.kind = "SpMul" THEN Sums(sp.left)
    ELSE IF sp.kind = "SpAdd" THEN 1 + Sums(sp.left)
    ELSE Sums(sp.of)

\* C21: in the spectrum ThermalSpectrum() returns every sum is trimmed at
\* once, always to the smallest and largest wavelength of the working grid,
\* and every wavelength of the trimmed spectrum is within them; there is
\* one sum for every emissive component.
C21_TrimAfterSum ==
    (Called("ThermalSpectrum") /\ result.outcome = "return") =>
       /\ SumsTrimmed(result.value, GridMin(result.value),
                      GridMax(result.value))
       /\ Sums(result.value) =
             Cardinality({ i \in 1..Len(thom.components) :
                             thom.components[i].emissivity # NoneVal })

\* a sum whose wavelengths the trim has cut: an emissive component after a
\* throughput curve with wavelengths outside the working grid
C21_Witness ==
    /\ Called("ThermalSpectrum") /\ result.outcome = "return"
    /\ result.value.kind = "Trim"
    /\ Sums(result.value) >= 2
    /\ \E w \in SpWaveSet(result.value.of) :
          w < GridMin(result.value) \/ w > GridMax(result.value)

\* C22: _multiplyThroughputs() of a thermal mode whose chain has a
\* transmissive component returns the left-to-right product of the
\* throughput curves of the chain.
C22_ThermalProduct ==
    (/\ Called("_multiplyThroughputs")
     /\ Len(ThroughputsOf(thom.components)) > 0) =>
        /\ result.outcome = "return"
        /\ result.value = LeftProduct(ThroughputsOf(thom.components))

\* C26: the thermal mode ThermalSpectrum() builds uses the graph table and
\* the component table of the calling mode and has its component names.
C26_SameTables ==
    (thom # NoneVal /\ om # NoneVal) =>
        /\ thom.gtname = om.gtname
        /\ thom.ctname = om.ctname
        /\ thom.compnames = om.compnames

\* a ThermalSpectrum() call that raises
ThermalFailure == result'.op = "ThermalSpectrum" /\ result'.outcome = "raise"

\* C27 as stated: a ThermalSpectrum() call that ends in an error leaves
\* the pixel scale of the mode as it was.
C27_Original ==
    [][(om # NoneVal /\ ThermalFailure) => om'.pixscale = om.pixscale]_vars

\* C27 (amended): a ThermalSpectrum() call that fails before the thermal
\* mode is constructed leaves the pixel scale of the mode as it was; once
\* the thermal mode is constructed the mode has its pixel scale, also when
\* the synthesis then fails.
C27_PixelScaleOnError ==
    [][(om # NoneVal /\ ThermalFailure) =>
          IF thom' = NoneVal
          THEN om'.pixscale = om.pixscale
          ELSE om'.pixscale = thom'.pixscale]_vars

\* a call that failed in the synthesis, the pixel scale set
C27_Witness ==
    /\ Called("ThermalSpectrum") /\ result.outcome = "raise"
    /\ thom # NoneVal
    /\ om.pixscale = thom.pixscale

\* C28: every wavelength of the spectrum ThermalSpectrum() returns is
\* within the smallest and the largest wavelength of the working grid.
C28_WithinGrid ==
    (Called("ThermalSpectrum") /\ result.outcome = "return") =>
        \A w \in SpWaveSet(result.value) :
            GridMin(result.value) <= w /\ w <= GridMax(result.value)

\* the indexes of the optical list whose pair of names is not all 'clear'
PairsKept(tfiles, thfiles) ==
    Sorted({ i \in 1..Len(tfiles) :
               ~(tfiles[i] = CLEAR /\ thfiles[i] = CLEAR) })

\* C25: the thermal component builder pairs the i-th optical name with the
\* i-th thermal name for every index of the optical list.  With a shorter
\* thermal list the outcome is the IndexError that ThermalSpectrum()
\* reports as the broken graph table; with a longer thermal list the names
\* beyond the length of the optical list make no component.
C25_Pairing ==
    (result # NoneVal /\ arg \in PairingInputs) =>
        IF Len(arg.thfiles) < Len(arg.tfiles)
        THEN /\ result.outcome = "raise"
             /\ result.exc = "IndexError"
             /\ result.value = BrokenGraphTable
        ELSE /\ result.outcome = "return"
             /\ Len(result.value) = Len(PairsKept(arg.tfiles, arg.thfiles))
             /\ \A j \in 1..Len(result.value) :
                   /\ result.value[j].throughput_name =
                         arg.tfiles[PairsKept(arg.tfiles, arg.thfiles)[j]]
                   /\ result.value[j].thermal_name =
                         arg.thfiles[PairsKept(arg.tfiles, arg.thfiles)[j]]

\* a thermal list shorter than the optical list and not empty has made the
\* builder fail after the first pair
C25_Witness ==
    /\ result # NoneVal /\ arg \in PairingInputs
    /\ Len(arg.thfiles) >= 1
    /\ Len(arg.thfiles) < Len(arg.tfiles)
    /\ arg.tfiles[1] # CLEAR
    /\ result.outcome = "raise"

\* the cache E has every entry of the cache D, unchanged
Grows(D, E) == DOMAIN D \subseteq DOMAIN E /\ \A n \in DOMAIN D : E[n] = D[n]

\* every entry is the table loaded from the file of its name
TablesLoaded ==
    /\ \A n \in DOMAIN GRAPHDICT :
          GraphTable(n) # IOError /\ GRAPHDICT[n] = GraphTable(n)
    /\ \A n \in DOMAIN COMPDICT :
          CompTable(n) # IOError /\ COMPDICT[n] = CompTable(n)
    /\ \A n \in DOMAIN THERMDICT : THERMDICT[n] = ThermTable(n)

\* a construction step, and the tables it names
Constructs == nconstructed' # nconstructed /\ result'.op = "ObservationMode"
ReadsGraphTable == ParseMode(StripBand(result'.args.obsmode)) # ValueError
GraphTableLoads == GraphTable(result'.args.graphtable) # IOError
CompTableLoads == CompTable(result'.args.comptable) # IOError

\* what a construction step leaves in the caches
ConstructionCaches ==
    /\ (ReadsGraphTable /\ GraphTableLoads) =>
          result'.args.graphtable \in DOMAIN GRAPHDICT'
    /\ (ReadsGraphTable /\ GraphTableLoads /\ CompTableLoads) =>
          result'.args.comptable \in DOMAIN COMPDICT'
    /\ (~ReadsGraphTable \/ ~GraphTableLoads) =>
          (GRAPHDICT' = GRAPHDICT /\ COMPDICT' = COMPDICT)
    /\ ~CompTableLoads => COMPDICT' = COMPDICT
    /\ result'.args.graphtable \in DOMAIN GRAPHDICT => GRAPHDICT' = GRAPHDICT
    /\ result'.args.comptable \in DOMAIN COMPDICT => COMPDICT' = COMPDICT
    /\ THERMDICT' = THERMDICT

\* what a ThermalSpectrum() step leaves in the caches
ThermalCaches ==
    /\ DefaultGraphTable \in DOMAIN GRAPHDICT'
    /\ thom' # NoneVal =>
          /\ DefaultCompTable \in DOMAIN COMPDICT'
          /\ DefaultThermTable \in DOMAIN THERMDICT'
    /\ DefaultThermTable \in DOMAIN THERMDICT => THERMDICT' = THERMDICT

FullyConstructed(lookup, object) ==
    IF lookup.cache = "GRAPHDICT" THEN object = GraphTable(lookup.table)
    ELSE /\ object.throughput_name = lookup.key.name
         /\ object.throughput =
               BuildThroughput(lookup.key.name, lookup.key.interpval)
         /\ object.empty = (lookup.key.name = CLEAR)
         /\ object.id \in built

\* the threads that are through with their lookup
Done == { t \in Threads : threads[t].pc = "done" }

\* the lookups of the threads in the cache named
LookupsIn(cache) ==
    { threads[t].lookup : t \in Threads } \cap
    { l \in Lookups : l.cache = cache }

\* C24: under every interleaving of the steps of the threads' lookups,
\* every entry of a cache is an object whose constructor has returned; a
\* thread through with its lookup holds such an object and leaves an entry
\* for its key; when all threads are through, a cache has one entry for
\* every key looked up and no other, and the entry is one of the objects
\* the threads hold for that key.
C24_RacingBuilders ==
    threads # <<>> =>
       /\ \A l \in Lookups : Hit(l) => FullyConstructed(l, Entry(l))
       /\ \A t \in Done :
             /\ FullyConstructed(threads[t].lookup, threads[t].local)
             /\ Hit(threads[t].lookup)
       /\ Done = Threads =>
             /\ DOMAIN GRAPHDICT =
                   { l.table : l \in LookupsIn("GRAPHDICT") }
             /\ DOMAIN component_dict["default"] =
                   { l.key : l \in LookupsIn("default") }
             /\ \A t \in Threads :
                   \E u \in Threads :
                      /\ threads[u].lookup = threads[t].lookup
                      /\ Entry(threads[t].lookup) = threads[u].local

\* both threads missed on the same component key and built it: the entry is
\* the second build, and the first thread holds its own
C24_Witness ==
    /\ threads # <<>>
    /\ Done = Threads
    /\ threads[1].lookup = threads[2].lookup
    /\ threads[1].lookup.cache = "default"
    /\ threads[1].local # threads[2].local
    /\ Entry(threads[1].lookup) = threads[2].local
====
